---------------------------- MODULE Spec2Model ----------------------------
(***************************************************************************)
(* DroidPin: the chunking and transcription-orchestration pipeline.        *)
(*                                                                         *)
(*   AudioChunker          src/src/droid_pin/audio/chunker.py              *)
(*   AudioExtractor        src/src/droid_pin/audio/extractor.py            *)
(*   GroqWhisperClient     src/src/droid_pin/transcription/client.py       *)
(*   TranscriptionProcessor src/src/droid_pin/transcription/processor.py   *)
(*                                                                         *)
(*   main_page             src/src/droid_pin/ui/pages.py                   *)
(*                                                                         *)
(* Specifications:                                                         *)
(*   Spec        one transcription of main_page: the upload is in the      *)
(*               working directory, TranscriptionProcessor.process runs    *)
(*               on it, the finally clause tests for the upload and        *)
(*               removes it;                                               *)
(*   SinkSpec    the same with a progress callback that raises;            *)
(*   ClientSpec  one call of GroqWhisperClient.transcribe with arbitrary   *)
(*               max_retries, retry_delay and service responses;           *)
(*   AggSpec     Step 4 of process() on given per-chunk results;           *)
(*   PlanSpec    one call of AudioChunker.chunk_audio, operation by        *)
(*               operation;                                                *)
(*   PairSpec    two runs of process() on one working directory, the       *)
(*               first under main_page.                                    *)
(*                                                                         *)
(* process() is taken one step at a time, a step being one operation on    *)
(* the working directory (a file written, its size read, its existence     *)
(* tested, its removal) or one wait (for the answer of the service, for    *)
(* the end of a sleep) with the computation that follows it: between two   *)
(* steps of a run the other run can take steps of its own.                 *)
(*                                                                         *)
(* What the environment decides is drawn nondeterministically: the size    *)
(* and outcome of every export, the outcome of the extraction and of the   *)
(* decoding, the response of the service to every attempt, and for every   *)
(* unlink of either run (a discarded export, a cleanup, the removal of     *)
(* the upload) whether it is refused.                                      *)
(***************************************************************************)
EXTENDS Integers, Sequences, FiniteSets, TLC

(***************************************************************************)
(* Program constants                                                       *)
(***************************************************************************)
\* config.py:18, chunker.py:44: int(15.0 * 1024 * 1024)
MaxChunkSizeBytes == 15728640
\* chunker.py:110: 5 * 60 * 1000
ChunkDurationMs == 300000
\* chunker.py:174: the floor test, mid_ms - start_ms < 10_000
MinHalfMs == 10000
\* client.py:48
DefaultMaxRetries == 3
\* client.py:49 (seconds)
DefaultRetryDelay == 1

(***************************************************************************)
(* Bounds of the model                                                     *)
(***************************************************************************)
\* exports of one plan that the environment makes come out over the
\* ceiling, wherever in the plan; the other exports come out within it (or
\* one fails and ends the plan)
MaxExports == 2
\* ClientSpec: the largest max_retries and retry_delay tried
MaxRetriesBound == 3
MaxDelayBound == 2
\* the longest list of per-chunk results aggregated in AggSpec
MaxAggResults == 3
\* SinkSpec: the latest progress emission on which the callback raises
MaxSinkFail == 10

\* total source durations tried (ms): empty, one short window, one window
\* that bisects to the floor, one full window, a window and a half, and the
\* 20-minute scenario
Durations == {0, 15000, 40000, 300000, 450000, 1200000}
\* those tried for the files whose name contains "chunk_"
NamedDurations == {40000, 450000}
\* sizes of the audio handed to the chunker: at the ceiling, and over it
AudioSizes == {MaxChunkSizeBytes, MaxChunkSizeBytes + 1}

None == "None"

\* an exception: its class, and the attempt of transcribe that raised it
\* (-1 when it is not raised by an attempt)
Error(kind, attempt) == [kind |-> kind, attempt |-> attempt]
NoError == Error(None, -1)

(***************************************************************************)
(* The file system: a function from the paths that exist to their content. *)
(* A path is <<directory entry kind, number>>, and for the files a chunker  *)
(* writes its output directory as well: output_dir / chunk_0007.mp3 is      *)
(* <<"chunk_", 7, output_dir>>.                                             *)
(***************************************************************************)
\* config.py: settings.temp_dir, the working directory
TempDir == "temp_dir"

\* variant: every run has an output directory of its own
OutputDirPerRun(run) == run

\* chunker.py:45 and processor.py:46: self.chunker = AudioChunker(), so
\* output_dir is settings.temp_dir in every run
OutputDir(run) == TempDir

\* chunker.py:125, 177, 192: self.output_dir / f"chunk_{index:04d}.mp3"
ChunkPathIn(dir, k) == <<"chunk_", k, dir>>

\* the chunk files of this run
ChunkPath(k) == ChunkPathIn(OutputDir("this"), k)
InputPath == <<"input", 0>>
\* an input file whose name contains "chunk_" and that is not the file of a
\* chunk: chunk_notes.mp3, chunk_0000.mp3 outside the working directory,
\* chunk_0000.mp4
ChunkNamedInputPath == <<"chunk_", -1>>
\* the audio extracted from a video of a plain name, input.mp3 in the
\* working directory
ExtractedPath == <<"extracted", 0>>
\* the audio extracted from a video such as chunk_notes.mp4: chunk_notes.mp3
\* in the working directory
ChunkNamedExtractedPath == <<"chunk_", -2>>

Exists(fs, path) == path \in DOMAIN fs

\* open(path, "w") and write: creates or overwrites
WriteFile(fs, path, content) ==
    [p \in (DOMAIN fs) \cup {path} |-> IF p = path THEN content ELSE fs[p]]

\* Path.unlink(), missing_ok left at False: FileNotFoundError when no file
\* is at the path
Unlink(fs, path) ==
    [fs |-> [p \in (DOMAIN fs) \ {path} |-> fs[p]],
     raised |-> ~Exists(fs, path)]

Audio(start_ms, end_ms, size, bitrate, complete) ==
    [start_ms |-> start_ms, end_ms |-> end_ms, size |-> size,
     bitrate |-> bitrate, complete |-> complete]

NoPath == <<"none", 0>>

\* what an operation was seen to do: for an export the outcome of the
\* encoder, for the others "ok" or the exception raised; the size read by
\* a stat, the duration read by the decoder
Seen(op, outcome, size) == [op |-> op, outcome |-> outcome, size |-> size]

(***************************************************************************)
(* A call that works on the directory makes its operations one after the   *)
(* other, and another run can act between any two of them.  The operators  *)
(* of such a call thread a record through it: the file system; the         *)
(* observations of the operations the call has made in earlier steps       *)
(* (`seen`), the number of the operation it comes to next (`at`), and how  *)
(* far it may go (`steps`): "all", to its end; "one", one operation beyond *)
(* those seen; "none", up to the next operation.  An operation that was    *)
(* made in an earlier step is replayed from its observation and leaves the *)
(* file system alone; the call halts before the operation it may not make, *)
(* `pending`.  `did`: the last operation was made or replayed (`last`: its *)
(* observation, `live`: it was made in this step).  `failed` and `error`:  *)
(* the call has raised.  `deny`: the environment refuses the removal the   *)
(* call makes in this step.  What the operations leave for the code after  *)
(* them: `size` (stat), `found` (exists), `duration_ms` (the decoder),     *)
(* `raised_at` (the path whose unlink raised), `touched` (the path the     *)
(* operation of this step wrote to or removed).  `dir`: the output         *)
(* directory of the run's chunker.  The fields from `pos` on are those of  *)
(* a plan, described at PlanState.                                         *)
(***************************************************************************)
Session(fs, seen, steps, deny) ==
    [fs |-> fs, seen |-> seen, at |-> 1, steps |-> steps, halted |-> FALSE,
     dir |-> OutputDir("this"),
     pending |-> None, did |-> FALSE, last |-> Seen(None, None, 0),
     live |-> FALSE, failed |-> FALSE, error |-> NoError, deny |-> deny,
     raised_at |-> NoPath, touched |-> NoPath, size |-> 0, found |-> FALSE,
     duration_ms |-> 0,
     pos |-> 1, rest |-> "within", load_ok |-> TRUE,
     logs |-> 0, sink_at |-> 0, sink_raised |-> FALSE,
     written |-> {}, exported |-> [size |-> 0, bitrate |-> None],
     accepted |-> <<>>, oversized |-> 0, warnings |-> 0]

\* the call has raised, or has halted before an operation
Stopped(st) == st.failed \/ st.halted

\* the operation the call comes to was made in an earlier step
Replaying(st) == st.at <= Len(st.seen)

\* the operation the call comes to is for a later step
MustWait(st) == ~Replaying(st) /\ st.steps = "none"

Raise(st, kind) == [st EXCEPT !.failed = TRUE, !.error = Error(kind, -1)]

\* the call is one of the chunker of `run`
OfRun(st, run) == [st EXCEPT !.dir = OutputDir(run)]

\* The call comes to operation `op`, which observes `obs` if it is made
\* now: it is replayed, or made (and recorded when the call goes by steps),
\* or the call halts before it.
Do(st, op, obs) ==
    IF Stopped(st) THEN [st EXCEPT !.did = FALSE]
    ELSE IF MustWait(st)
    THEN [st EXCEPT !.halted = TRUE, !.pending = op, !.did = FALSE]
    ELSE IF Replaying(st)
    THEN [st EXCEPT !.at = @ + 1, !.did = TRUE, !.live = FALSE,
                    !.last = st.seen[st.at]]
    ELSE [st EXCEPT !.at = @ + 1, !.did = TRUE, !.live = TRUE,
                    !.last = obs,
                    !.seen = IF st.steps = "all" THEN @ ELSE Append(@, obs),
                    !.steps = IF st.steps = "all" THEN @ ELSE "none"]

\* chunker.py:49-51: file_path.stat().st_size, FileNotFoundError when no
\* file is at the path
get_file_size(fs, path) ==
    IF Exists(fs, path) THEN Seen("stat", "ok", fs[path].size)
    ELSE Seen("stat", "FileNotFoundError", 0)

\* the size is in hand, or the stat has raised
StatMade(s) ==
    IF ~s.did THEN s
    ELSE IF s.last.outcome = "ok" THEN [s EXCEPT !.size = s.last.size]
    ELSE Raise(s, s.last.outcome)

\* chunker.py:55, 83, 135, 195: self.get_file_size(path), one operation
GetFileSize(st, path) ==
    StatMade(Do(st, "stat", get_file_size(st.fs, path)))

ExistsMade(s) ==
    IF ~s.did THEN s ELSE [s EXCEPT !.found = (s.last.outcome = "found")]

\* chunker.py:219, extractor.py:89: path.exists(), one operation
PathExists(st, path) ==
    ExistsMade(Do(st, "exists",
                  Seen("exists",
                       IF Exists(st.fs, path) THEN "found" ELSE "missing", 0)))

\* the file is removed, or the unlink has raised
UnlinkMade(s, path) ==
    IF ~s.did THEN s
    ELSE IF s.last.outcome # "ok"
    THEN [Raise(s, s.last.outcome) EXCEPT !.raised_at = path]
    ELSE IF s.live
    THEN [s EXCEPT !.fs = Unlink(@, path).fs, !.touched = path]
    ELSE s

\* chunker.py:141, 198, 220, extractor.py:90: path.unlink(), one operation;
\* it raises when the file is gone and when the removal is refused
UnlinkPath(st, path) ==
    UnlinkMade(Do(st, "unlink",
                  Seen("unlink",
                       IF Unlink(st.fs, path).raised THEN "FileNotFoundError"
                       ELSE IF st.deny THEN "PermissionError"
                       ELSE "ok", 0)),
               path)

(***************************************************************************)
(* AudioChunker                                                            *)
(***************************************************************************)
AudioChunk(path, index, start_ms, end_ms) ==
    [path |-> path, index |-> index, start_ms |-> start_ms,
     end_ms |-> end_ms, duration_ms |-> end_ms - start_ms]

\* variant: a file of exactly the ceiling is chunked too
NeedsChunkingInclusive(size) == size >= MaxChunkSizeBytes

\* chunker.py:53-58, of the size it has read
needs_chunking(size) == size > MaxChunkSizeBytes

\* what the environment makes of one export
ExportOutcomes == {"within", "over", "fail_nofile", "fail_partial"}

ExportSize(o) == IF o = "over" THEN MaxChunkSizeBytes + 1 ELSE MaxChunkSizeBytes

\* The state a plan threads through its operations: that of a call on the
\* directory, and the number of the next export and the outcome the
\* environment gives the export of this step; whether the
\* decoder reads the audio; the number of log calls made and the number of
\* the log call whose progress callback raises (0: none).  Kept for the
\* properties: the paths written during the plan, the size and bitrate of
\* the last export, per accepted chunk the size and bitrate it was accepted
\* with and whether its size was compared with the ceiling, the number of
\* exports found over the ceiling, and the number of minimum-size warnings
\* logged.  deny: the environment refuses the unlink of this step.
PlanState(fs, seen, steps, rest, load_ok, sink_at, deny) ==
    [Session(fs, seen, steps, deny) EXCEPT
        !.rest = rest, !.load_ok = load_ok,
        !.sink_at = sink_at]

\* what a plan has done and the chunk list it has built
Planned(st, chunks) == [st |-> st, chunks |-> chunks]

\* chunker.py:78-81: log(msg) calls the progress callback, which may raise
Log(st) ==
    IF Stopped(st) THEN st
    ELSE [st EXCEPT !.logs = @ + 1,
                    !.failed = (st.logs + 1 = st.sink_at),
                    !.sink_raised = (st.logs + 1 = st.sink_at)]

\* chunker.py:175: the warning logged at the minimum size
Warn(st) ==
    IF Stopped(st) THEN st ELSE [Log(st) EXCEPT !.warnings = @ + 1]

\* the outcome of the export the plan comes to
NextOutcome(st) == st.rest

\* the export has written the file at the path
Wrote(s, path, content) ==
    [s EXCEPT !.fs = IF s.live THEN WriteFile(@, path, content) ELSE @,
              !.touched = IF s.live THEN path ELSE @,
              !.written = @ \cup {path}]

\* the file is exported, or the export has raised, after creating the file
\* or before
ExportMade(s, path, start_ms, end_ms, bitrate) ==
    IF ~s.did THEN s
    ELSE CASE s.last.outcome = "fail_nofile" ->
                Raise([s EXCEPT !.pos = @ + 1], "ChunkingError")
           [] s.last.outcome = "fail_partial" ->
                Raise(Wrote([s EXCEPT !.pos = @ + 1], path,
                            Audio(start_ms, end_ms, 0, bitrate, FALSE)),
                      "ChunkingError")
           [] OTHER ->
                Wrote([s EXCEPT !.pos = @ + 1,
                                !.exported = [size |-> s.last.size,
                                              bitrate |-> bitrate]],
                      path,
                      Audio(start_ms, end_ms, s.last.size, bitrate, TRUE))

\* chunker.py:128, 178, 193: AudioSegment.export(path, format="mp3",
\* bitrate=...), one operation
Export(st, path, start_ms, end_ms, bitrate) ==
    ExportMade(Do(st, "export",
                  Seen("export", NextOutcome(st), ExportSize(NextOutcome(st)))),
               path, start_ms, end_ms, bitrate)

\* variant: an oversized export is left in place
DiscardKeep(st, path) ==
    IF Stopped(st) THEN st ELSE [st EXCEPT !.oversized = @ + 1]

\* an export found over the ceiling has been unlinked, or the unlink raised
Discarded(s) == IF ~s.did THEN s ELSE [s EXCEPT !.oversized = @ + 1]

\* chunker.py:141, 198: chunk_path.unlink() of an oversized export
Discard(st, path) == Discarded(UnlinkPath(st, path))

\* a chunk of the list: the size the code has read for it when it compared
\* one with the ceiling, the size of its export when it did not
Accept(st, path, checked) ==
    [st EXCEPT !.accepted =
        Append(@, [size |-> IF checked THEN st.size ELSE st.exported.size,
                   bitrate |-> st.exported.bitrate,
                   checked |-> checked])]

\* chunker.py:144-147, 200-203: chunks.extend(sub_chunks)
Extend(chunks, sub) == Planned(sub.st, chunks \o sub.chunks)

RECURSIVE split_segment(_, _, _, _)

\* chunker.py:195-212: the half has been exported and its size read
HalfExported(s1, chunks, seg_start, seg_end, index) ==
    IF Stopped(s1) THEN Planned(s1, chunks)
    ELSE IF s1.size > MaxChunkSizeBytes
    THEN Extend(chunks,
                split_segment(Discard(s1, ChunkPathIn(s1.dir, index)),
                              seg_start, seg_end, index))
    ELSE Planned(Accept(s1, ChunkPathIn(s1.dir, index), TRUE),
                 Append(chunks,
                        AudioChunk(ChunkPathIn(s1.dir, index), index,
                                   seg_start, seg_end)))

\* chunker.py:190-212: the body of the loop over the two halves
SplitHalf(st, chunks, seg_start, seg_end, base_index) ==
    HalfExported(GetFileSize(Export(st,
                                    ChunkPathIn(st.dir,
                                                base_index + Len(chunks)),
                                    seg_start, seg_end, "64k"),
                             ChunkPathIn(st.dir, base_index + Len(chunks))),
                 chunks, seg_start, seg_end, base_index + Len(chunks))

\* chunker.py:190: the second turn of the loop over the halves
SecondHalf(left, mid_ms, end_ms, base_index) ==
    IF Stopped(left.st) THEN left
    ELSE SplitHalf(left.st, left.chunks, mid_ms, end_ms, base_index)

\* variant: a window whose half is exactly the floor is not bisected either
AtFloorInclusive(start_ms, mid_ms) == mid_ms - start_ms <= MinHalfMs

\* variant: bisection goes on down to halves of a quarter of the floor
AtFloorQuarter(start_ms, mid_ms) == mid_ms - start_ms < MinHalfMs \div 4

\* chunker.py:174: the floor test
AtFloor(start_ms, mid_ms) == mid_ms - start_ms < MinHalfMs

\* variant: the bitrate of the other exports
FloorBitrateSame == "64k"

\* chunker.py:178: the bitrate of the export at the minimum size
FloorBitrate == "32k"

\* chunker.py:178-187: the export at the minimum size is taken as it is
FloorExported(s1, start_ms, end_ms, base_index) ==
    IF Stopped(s1) THEN Planned(s1, <<>>)
    ELSE Planned(Accept(s1, ChunkPathIn(s1.dir, base_index), FALSE),
                 <<AudioChunk(ChunkPathIn(s1.dir, base_index), base_index,
                              start_ms, end_ms)>>)

\* chunker.py:162-214
split_segment(st, start_ms, end_ms, base_index) ==
    IF Stopped(st) THEN Planned(st, <<>>)
    ELSE IF AtFloor(start_ms, (start_ms + end_ms) \div 2)
    THEN FloorExported(Export(Warn(st), ChunkPathIn(st.dir, base_index),
                              start_ms, end_ms, FloorBitrate),
                       start_ms, end_ms, base_index)
    ELSE SecondHalf(SplitHalf(st, <<>>, start_ms,
                              (start_ms + end_ms) \div 2, base_index),
                    (start_ms + end_ms) \div 2, end_ms, base_index)

\* chunker.py:125: the file of window i
WindowPath(dir, i) == ChunkPathIn(dir, i)

\* chunker.py:140-147: the window is over the ceiling and has been logged so
WindowSplit(s2, chunks, chunk_path, start_ms, end_ms) ==
    IF Stopped(s2) THEN Planned(s2, chunks)
    ELSE Extend(chunks, split_segment(Discard(s2, chunk_path),
                                      start_ms, end_ms, Len(chunks)))

\* chunker.py:139-157: the window has been exported and its size read
WindowExported(s1, chunks, chunk_path, start_ms, end_ms) ==
    IF Stopped(s1) THEN Planned(s1, chunks)
    ELSE IF s1.size > MaxChunkSizeBytes
    THEN WindowSplit(Log(s1), chunks, chunk_path, start_ms, end_ms)
    ELSE Planned(Accept(s1, chunk_path, TRUE),
                 Append(chunks,
                        AudioChunk(chunk_path, Len(chunks), start_ms, end_ms)))

\* chunker.py:120: min(start_ms + chunk_duration_ms, total_duration_ms)
WindowEnd(i, total_duration_ms) ==
    IF i * ChunkDurationMs + ChunkDurationMs < total_duration_ms
    THEN i * ChunkDurationMs + ChunkDurationMs ELSE total_duration_ms

\* chunker.py:119-157: the body of the loop over the windows
ChunkWindow(st, chunks, i, total_duration_ms) ==
    WindowExported(Log(GetFileSize(Export(Log(st), WindowPath(st.dir, i),
                                          i * ChunkDurationMs,
                                          WindowEnd(i, total_duration_ms),
                                          "64k"),
                                   WindowPath(st.dir, i))),
                   chunks, WindowPath(st.dir, i), i * ChunkDurationMs,
                   WindowEnd(i, total_duration_ms))

RECURSIVE ChunkLoop(_, _, _, _)
\* chunker.py:118: for i in range(num_chunks), from what the plan has done
\* so far
ChunkLoop(p, i, num_chunks, total_duration_ms) ==
    IF i >= num_chunks \/ Stopped(p.st) THEN p
    ELSE ChunkLoop(ChunkWindow(p.st, p.chunks, i, total_duration_ms),
                   i + 1, num_chunks, total_duration_ms)

\* variant: the number of windows rounded down
NumChunksFloor(total_duration_ms) == total_duration_ms \div ChunkDurationMs

\* chunker.py:113
NumChunks(total_duration_ms) ==
    (total_duration_ms + ChunkDurationMs - 1) \div ChunkDurationMs

\* the audio is decoded and its duration in hand, or the decoder has raised
LoadMade(s) ==
    IF ~s.did THEN s
    ELSE IF s.last.outcome = "ok" THEN [s EXCEPT !.duration_ms = s.last.size]
    ELSE Raise(s, s.last.outcome)

\* chunker.py:90-91, 105-106: AudioSegment.from_file and len(audio), one
\* operation: it reads the file, and raises when the file is gone or
\* cannot be decoded
Load(st, path) ==
    LoadMade(Do(st, "load",
                IF ~Exists(st.fs, path)
                THEN Seen("load", "FileNotFoundError", 0)
                ELSE IF ~st.load_ok THEN Seen("load", "ChunkingError", 0)
                ELSE Seen("load", "ok", st.fs[path].end_ms)))

\* chunker.py:88-101: the file is used as the single chunk
SingleChunk(s1, audio_path) ==
    Planned(s1, IF Stopped(s1) THEN <<>>
                ELSE <<AudioChunk(audio_path, 0, 0, s1.duration_ms)>>)

\* chunker.py:159-160: the last log line and the return
LoggedEnd(p) == Planned(Log(p.st), p.chunks)

\* chunker.py:108-160: the audio is loaded for chunking
Chunked(s1) ==
    LoggedEnd(ChunkLoop(Planned(s1, <<>>), 0, NumChunks(s1.duration_ms),
                        s1.duration_ms))

\* chunker.py:87-160: the size of the file is in hand
Sized(s0, audio_path) ==
    IF Stopped(s0) THEN Planned(s0, <<>>)
    ELSE IF ~needs_chunking(s0.size)
    THEN SingleChunk(Log(Load(Log(s0), audio_path)), audio_path)
    ELSE Chunked(Log(Log(Load(Log(s0), audio_path))))

\* chunker.py:60-160, from the state `st` of the call
chunk_audio(st, audio_path) ==
    Sized(GetFileSize(Log(GetFileSize(st, audio_path)), audio_path),
          audio_path)

\* chunker.py:219: "chunk_" in chunk.path.name
IsChunkName(path) == path[1] = "chunk_"

\* chunker.py:219-220: the file that exists and is named as a chunk file is
\* unlinked; no except clause around unlink
ChunkRemoved(s1, path) ==
    IF Stopped(s1) \/ ~(s1.found /\ IsChunkName(path)) THEN s1
    ELSE UnlinkPath(s1, path)

RECURSIVE CleanupFrom(_, _, _)
\* chunker.py:218: for chunk in chunks
CleanupFrom(st, chunks, k) ==
    IF k > Len(chunks) \/ Stopped(st) THEN st
    ELSE CleanupFrom(ChunkRemoved(PathExists(st, chunks[k].path),
                                  chunks[k].path),
                     chunks, k + 1)

\* chunker.py:216-221
cleanup_chunks(st, chunks) == CleanupFrom(st, chunks, 1)

(***************************************************************************)
(* GroqWhisperClient                                                       *)
(***************************************************************************)
\* What the service answers to one attempt.  "rate_limit" raises
\* RateLimitError; "api_error" (a transient failure) and "permanent" (an
\* error of a permanent class such as a rejected credential or request) raise
\* other subclasses of APIError.  A text is a sequence of characters; the
\* text of a response that carries none (Python's None) is NullText.
NullText == <<None>>
Response(kind, text, language, segments) ==
    [kind |-> kind, text |-> text, language |-> language, segments |-> segments]

OkHello == Response("ok", <<"H", "i">>, "en", <<"s1">>)
OkEmpty == Response("ok", <<>>, None, <<>>)
OkNoText == Response("ok", NullText, "en", <<>>)
Failure(kind) == Response(kind, <<>>, None, <<>>)
ServiceResponses ==
    {OkHello, OkEmpty, OkNoText, Failure("rate_limit"), Failure("api_error"),
     Failure("permanent")}

\* client.py:95: except RateLimitError
IsRateLimitError(r) == r.kind = "rate_limit"
\* client.py:100: except APIError (every other error of the service)
IsAPIError(r) == r.kind \in {"api_error", "permanent"}

\* client.py:84-91 (response_format = "verbose_json", config.py:35)
TranscriptionResult(response) ==
    [text |-> response.text, language |-> response.language,
     segments |-> response.segments]
NoResult == [text |-> <<>>, language |-> None, segments |-> <<>>]

\* config.py:35
DefaultResponseFormat == "verbose_json"
ResponseFormats == {"text", "json", "verbose_json"}

\* str(x): the characters of x, "None" for None
Str(text) == IF text = NullText THEN <<"N", "o", "n", "e">> ELSE text

\* client.py:81-93: the result built from a response, by response format;
\* a response in the text format is the text itself
ParseResponse(response_format, response) ==
    IF response_format = "text"
    THEN [text |-> Str(response.text), language |-> None, segments |-> <<>>]
    ELSE IF response_format = "verbose_json"
    THEN TranscriptionResult(response)
    ELSE [text |-> response.text, language |-> None, segments |-> <<>>]

Call(attempt) == [ev |-> "call", n |-> attempt]
Sleep(seconds) == [ev |-> "sleep", n |-> seconds]

\* variant: the same delay after every rate limit
RateLimitWaitFixed(retry_delay, attempt) == retry_delay

\* client.py:97: retry_delay * (2**attempt)
RateLimitWait(retry_delay, attempt) == retry_delay * (2 ^ attempt)

\* client.py:98: the sleep after a rate limit is unconditional
RateLimitSleeps(attempt, max_retries) == TRUE

\* variant: the fixed delay also after the final attempt
FixedDelayAlways(attempt, max_retries) == TRUE

\* client.py:102: if attempt < max_retries - 1
FixedDelaySleeps(attempt, max_retries) == attempt < max_retries - 1

Raised(error, trace) ==
    [outcome |-> "raised", result |-> NoResult, error |-> error, trace |-> trace]
\* an exception one of the except clauses has caught: the loop goes on
Caught(error, trace) ==
    [outcome |-> "caught", result |-> NoResult, error |-> error, trace |-> trace]
Returned(result, trace) ==
    [outcome |-> "returned", result |-> result, error |-> NoError, trace |-> trace]

\* variant: the generic error whatever was recorded
ExhaustedGeneric(last_error, trace) == Raised(Error("Exception", -1), trace)

\* client.py:105: raise last_error or Exception("Transcription failed after retries")
Exhausted(last_error, trace) ==
    Raised(IF last_error # NoError THEN last_error
           ELSE Error("Exception", -1), trace)

\* variant: one attempt too many
LoopEndsLate(attempt, max_retries) == attempt > max_retries

\* client.py:69: for attempt in range(max_retries)
LoopEnds(attempt, max_retries) == attempt >= max_retries

\* the attempt has opened the file and waits for the service
Waiting(trace) ==
    [outcome |-> "waiting", result |-> NoResult, error |-> NoError, trace |-> trace]

\* client.py:71: open(audio_path, "rb"), which raises FileNotFoundError when
\* the file is not there; no except clause catches it
Open(file_exists, attempt, trace) ==
    IF ~file_exists THEN Raised(Error("FileNotFoundError", attempt), trace)
    ELSE Waiting(trace)

\* client.py:72-103: the call to the service of an attempt that has opened
\* the file, and what the attempt does with the answer
Answered(response, max_retries, retry_delay, response_format, attempt, trace) ==
    LET called == Append(trace, Call(attempt))
    IN  IF IsRateLimitError(response)
        THEN Caught(Error("RateLimitError", attempt),
                    IF RateLimitSleeps(attempt, max_retries)
                    THEN Append(called,
                                Sleep(RateLimitWait(retry_delay, attempt)))
                    ELSE called)
        ELSE IF IsAPIError(response)
        THEN Caught(Error(IF response.kind = "permanent"
                          THEN "PermanentAPIError" ELSE "APIError",
                          attempt),
                    IF FixedDelaySleeps(attempt, max_retries)
                    THEN Append(called, Sleep(retry_delay))
                    ELSE called)
        ELSE Returned(ParseResponse(response_format, response), called)

\* the except clause that caught the attempt's error has gone to sleep
Sleeps(a) ==
    /\ a.outcome = "caught"
    /\ a.trace # <<>>
    /\ a.trace[Len(a.trace)].ev = "sleep"

\* client.py:70-103: the body of the loop for one attempt.  file_exists:
\* whether the file is there when this attempt opens it.
Attempt(response, max_retries, retry_delay, file_exists, response_format, attempt, trace) ==
    LET o == Open(file_exists, attempt, trace)
    IN  IF o.outcome = "raised" THEN o
        ELSE Answered(response, max_retries, retry_delay, response_format,
                      attempt, o.trace)

RECURSIVE TranscribeLoop(_, _, _, _, _, _, _, _)
\* client.py:69-105: for attempt in range(max_retries), and the raise after
\* the loop.  file_exists[k + 1]: whether the file is there when attempt k
\* opens it.
TranscribeLoop(responses, max_retries, retry_delay, file_exists, response_format, attempt, last_error, trace) ==
    IF LoopEnds(attempt, max_retries) THEN Exhausted(last_error, trace)
    ELSE LET a == Attempt(responses[attempt + 1], max_retries, retry_delay,
                          file_exists[attempt + 1], response_format, attempt,
                          trace)
         IN  IF a.outcome = "caught"
             THEN TranscribeLoop(responses, max_retries, retry_delay,
                                 file_exists, response_format, attempt + 1,
                                 a.error, a.trace)
             ELSE a

\* client.py:43-105
transcribe(responses, max_retries, retry_delay, file_exists, response_format) ==
    TranscribeLoop(responses, max_retries, retry_delay, file_exists,
                   response_format, 0, NoError, <<>>)

(***************************************************************************)
(* AudioExtractor                                                          *)
(***************************************************************************)
\* extractor.py:25-35: the suffix is one of the video extensions
\* variant: every input is taken for a video
IsVideoAlways(file) == TRUE

is_video_file(file) == file.is_video

\* extract() returns the path; raises ValueError when the video has no audio
\* track (nothing written yet); write_audiofile may fail before or after
\* it has created the output file
ExtractOutcomes == {"ok", "no_audio", "write_fail_nofile", "write_fail_partial"}

\* extractor.py:82-90: no except clause around unlink
FileRemoved(s1, file_path) ==
    IF Stopped(s1) \/ ~s1.found THEN s1 ELSE UnlinkPath(s1, file_path)

cleanup(st, file_path) == FileRemoved(PathExists(st, file_path), file_path)

(***************************************************************************)
(* TranscriptionProcessor                                                  *)
(***************************************************************************)
\* the characters str.strip() removes, those for which str.isspace() is
\* true: space, \t, \n, \r, \x0b (the vertical tab, by its name), \x0c, and
\* by their code points the separators \x1c to \x1f, the next line, the
\* no-break space and the spaces and separators of Unicode
Whitespace ==
    {" ", "\t", "\n", "\r", "\f", "VT",
     "U+001C", "U+001D", "U+001E", "U+001F", "U+0085", "U+00A0", "U+1680",
     "U+2000", "U+2001", "U+2002", "U+2003", "U+2004", "U+2005", "U+2006",
     "U+2007", "U+2008", "U+2009", "U+200A", "U+2028", "U+2029", "U+202F",
     "U+205F", "U+3000"}

\* c.isspace()
IsSpace(c) == c \in Whitespace

RECURSIVE LStrip(_)
LStrip(t) == IF t # <<>> /\ IsSpace(Head(t)) THEN LStrip(Tail(t)) ELSE t

RECURSIVE RStrip(_)
RStrip(t) ==
    IF t # <<>> /\ IsSpace(t[Len(t)]) THEN RStrip(SubSeq(t, 1, Len(t) - 1)) ELSE t

\* str.strip()
Strip(t) == RStrip(LStrip(t))

RECURSIVE Join(_)
\* " ".join(texts)
Join(texts) ==
    IF texts = <<>> THEN <<>>
    ELSE IF Len(texts) = 1 THEN texts[1]
    ELSE texts[1] \o <<" ">> \o Join(Tail(texts))

RECURSIVE StrippedTexts(_)
\* processor.py:63: `if r.text`, false for "" and for None
Truthy(text) == text # <<>> /\ text # NullText

\* processor.py:63: [r.text.strip() for r in results if r.text]
StrippedTexts(results) ==
    IF results = <<>> THEN <<>>
    ELSE (IF Truthy(Head(results).text) THEN <<Strip(Head(results).text)>>
          ELSE <<>>) \o StrippedTexts(Tail(results))

\* processor.py:57-64
combine_transcriptions(results) == Join(StrippedTexts(results))

RECURSIVE SumDurations(_)
\* processor.py:133
SumDurations(chunks) ==
    IF chunks = <<>> THEN 0
    ELSE Head(chunks).duration_ms + SumDurations(Tail(chunks))

RECURSIVE AllSegments(_)
\* processor.py:135-138
AllSegments(results) ==
    IF results = <<>> THEN <<>>
    ELSE Head(results).segments \o AllSegments(Tail(results))

RECURSIVE DetectedLanguageFirstSet(_)
\* variant: the language of the first result that has one
DetectedLanguageFirstSet(results) ==
    IF results = <<>> THEN None
    ELSE IF Head(results).language # None THEN Head(results).language
    ELSE DetectedLanguageFirstSet(Tail(results))

\* processor.py:134
DetectedLanguage(results) ==
    IF results # <<>> THEN results[1].language ELSE None

\* processor.py:143-151
ProcessingResult(results, chunks, chunk_count, was_video) ==
    [text |-> combine_transcriptions(results),
     language |-> DetectedLanguage(results),
     total_duration_ms |-> SumDurations(chunks),
     chunk_count |-> chunk_count,
     segments |-> AllSegments(results),
     was_video |-> was_video]

NoProcessingResult ==
    [text |-> <<>>, language |-> None, total_duration_ms |-> 0,
     chunk_count |-> -1, segments |-> <<>>, was_video |-> FALSE]

(***************************************************************************)
(* State                                                                   *)
(***************************************************************************)
VARIABLES
    pc,               \* where main_page is: in process() at start, planning,
                      \* chunking (in chunk_audio), transcribing, cleanup (the
                      \* finally clause), done (process() has returned or
                      \* raised), closing (in its own finally clause) and
                      \* closed (it has ended); off elsewhere
    input,            \* the file given: is_video, and the duration and size
                      \* of its audio
    fs,               \* the files that exist
    audio_path,       \* processor.py:84
    temp_audio_path,  \* processor.py:86
    was_video,        \* processor.py:85
    chunks,           \* processor.py:87
    results,          \* processor.py:110
    plan,             \* the chunk_audio call in progress: the operations it
                      \* has made, the log calls it has made, and the
                      \* operation it comes to next
    cur_phase,        \* the transcribe call in progress: waiting (for the
                      \* service, the file open), sleeping; idle when none is
    cur_attempt,      \* client.py:69: the attempt of the call in progress
    cur_last_error,   \* client.py:67: last_error of the call in progress
    fin,              \* the finally clause in progress, that of process()
                      \* and then that of main_page: the operations it has
                      \* made and the operation it comes to next
    exc,              \* the exception propagating out of the try block
    result,           \* the value of the return statement
    outcome,          \* what the caller of process() receives
    unlink_failed,    \* the path whose unlink raised in the finally clause
    page_exc,         \* the exception that leaves main_page
    invoked,          \* history: the chunk indices handed to client.transcribe
    written,          \* history: the paths written during the run
    accepted,         \* history: per planned chunk, its size and whether
                      \* the size was checked
    oversized,        \* history: the exports of the plan found over the
                      \* ceiling
    stages,           \* history: the stages entered, in order
    sink_fail_at,     \* the number of the progress emission on which the
                      \* progress callback raises (0: on none)
    progress,         \* history: the progress emissions, in order
    c_pc,             \* ClientSpec: ready, done; idle elsewhere
    c_in,             \* ClientSpec: the arguments and the service's responses
    c_ret,            \* ClientSpec: what transcribe returned or raised
    a_pc,             \* AggSpec: ready, done; idle elsewhere
    a_in,             \* AggSpec: the per-chunk results handed to Step 4
    a_out,            \* AggSpec: the ProcessingResult built from them
    p_pc,             \* PlanSpec: ready, done; idle elsewhere
    p_in,             \* PlanSpec: the audio file and what its exports do
    p_out,            \* PlanSpec: what chunk_audio did
    o_pc,             \* PairSpec: where the other run of process() is:
                      \* start, chunking, planned, cleanup, done; off
                      \* elsewhere
    o_call,           \* PairSpec: the call of the other run in progress
                      \* (chunk_audio or cleanup_chunks), as plan and fin
    o_chunks,         \* PairSpec: the chunk list of the other run
    o_log             \* PairSpec, history: what the other run wrote to or
                      \* removed from the working directory while this run
                      \* had its plan

vars == <<pc, input, fs, audio_path, temp_audio_path, was_video, chunks,
          results, plan, cur_phase, cur_attempt, cur_last_error, fin, exc,
          result, outcome, unlink_failed, page_exc, invoked, written,
          accepted, oversized, stages, sink_fail_at, progress,
          c_pc, c_in, c_ret, a_pc, a_in, a_out, p_pc, p_in, p_out,
          o_pc, o_call, o_chunks, o_log>>

procVars == <<pc, input, fs, audio_path, temp_audio_path, was_video, chunks,
              results, plan, cur_phase, cur_attempt, cur_last_error, fin,
              exc, result, outcome, unlink_failed, page_exc, invoked,
              written, accepted, oversized, stages, sink_fail_at, progress>>
procVarsButFs == <<pc, input, audio_path, temp_audio_path, was_video, chunks,
                   results, plan, cur_phase, cur_attempt, cur_last_error,
                   fin, exc, result, outcome, unlink_failed, page_exc,
                   invoked, written, accepted, oversized, stages,
                   sink_fail_at, progress>>
clientVars == <<c_pc, c_in, c_ret>>
aggVars == <<a_pc, a_in, a_out>>
planVars == <<p_pc, p_in, p_out>>
pairVars == <<o_pc, o_call, o_chunks, o_log>>

\* a call on the working directory that goes by steps: the operations it
\* has made, the log calls it has made, and the operation it comes to next
CallAt(seen, logs, pending) ==
    [seen |-> seen, logs |-> logs, pending |-> pending]
NoCall == CallAt(<<>>, 0, None)

NoClientInput ==
    [responses |-> <<>>, max_retries |-> 0, retry_delay |-> 0,
     file_exists |-> <<>>, response_format |-> DefaultResponseFormat]
NoClientReturn == Raised(NoError, <<>>)

\* what the caller of process() has in hand: nothing yet, the returned
\* ProcessingResult, or a raised exception
Pending == [kind |-> "pending", error |-> NoError]
CallerGetsResult == [kind |-> "returned", error |-> NoError]
CallerGetsError(error) == [kind |-> "raised", error |-> error]

\* the names of the files given, by the stem and where the file is: a plain
\* name; a name that contains "chunk_"; chunk_0000 and chunk_0001, which for
\* an audio file (.mp3) is the file at that place of the working directory
Stems == {InputPath, ChunkNamedInputPath, ChunkPath(0), ChunkPath(1)}

\* the files given to process(): every combination of kind, duration and
\* size under a plain name, and a short and a long one of each kind and
\* size under each of the other names
InputFiles ==
    [is_video : BOOLEAN, duration_ms : Durations, size : AudioSizes,
     stem : {InputPath}]
    \cup [is_video : BOOLEAN, duration_ms : NamedDurations, size : AudioSizes,
          stem : Stems \ {InputPath}]
NoInputFile ==
    [is_video |-> FALSE, duration_ms |-> 0, size |-> 0, stem |-> InputPath]

\* processor.py:84: the path of the file given; a video (.mp4) is not at the
\* path of a chunk file whatever its stem
InputPathOf(file) ==
    IF ~file.is_video THEN file.stem
    ELSE IF file.stem = InputPath THEN InputPath
    ELSE ChunkNamedInputPath

\* extractor.py:58: output_dir / f"{video_path.stem}.{output_format}"
ExtractedPathOf(file) ==
    IF file.stem = InputPath THEN ExtractedPath
    ELSE IF file.stem = ChunkNamedInputPath THEN ChunkNamedExtractedPath
    ELSE file.stem

ProcInit(p) ==
    /\ pc = p
    /\ fs = [q \in {InputPathOf(input)} |->
               Audio(0, input.duration_ms, input.size, "source", TRUE)]
    /\ audio_path = InputPathOf(input)
    /\ temp_audio_path = NoPath
    /\ was_video = FALSE
    /\ chunks = <<>>
    /\ results = <<>>
    /\ plan = NoCall
    /\ cur_phase = "idle"
    /\ cur_attempt = 0
    /\ cur_last_error = NoError
    /\ fin = NoCall
    /\ exc = NoError
    /\ result = NoProcessingResult
    /\ outcome = Pending
    /\ unlink_failed = NoPath
    /\ page_exc = NoError
    /\ invoked = <<>>
    /\ written = {}
    /\ accepted = <<>>
    /\ oversized = 0
    /\ stages = <<>>
    /\ progress = <<>>

ClientIdle ==
    /\ c_pc = "idle"
    /\ c_in = NoClientInput
    /\ c_ret = NoClientReturn

AggIdle ==
    /\ a_pc = "idle"
    /\ a_in = <<>>
    /\ a_out = NoProcessingResult

NoPlanInput == [duration_ms |-> 0, size |-> 0, rest |-> "within"]
NoPlanOutput ==
    Planned(PlanState(<<>>, <<>>, "one", "within", TRUE, 0, FALSE), <<>>)

PlanIdle ==
    /\ p_pc = "idle"
    /\ p_in = NoPlanInput
    /\ p_out = NoPlanOutput

PairIdle ==
    /\ o_pc = "off"
    /\ o_call = NoCall
    /\ o_chunks = <<>>
    /\ o_log = {}

\* ui/components.py:31-36 and processor.py:83-87: the upload is in the
\* working directory and process() is at the entry of its try block
Init ==
    /\ input \in InputFiles
    /\ sink_fail_at = 0
    /\ ProcInit("start")
    /\ ClientIdle
    /\ AggIdle
    /\ PlanIdle
    /\ PairIdle

(***************************************************************************)
(* main_page, ui/pages.py:56-91, and process(), processor.py:66-162        *)
(***************************************************************************)
\* variant: an exception of the try block goes straight to the caller
RaiseToCaller == "done"

\* processor.py:153-157: an exception of the try block is re-raised and the
\* finally clause runs before it leaves process()
RaiseTo == "cleanup"

\* processor.py:51-55: one call of _report_progress(current, total, message);
\* the message is kept by its kind: "extracting", "extracted", "loading",
\* "chunker" (a log line of the chunker), "ready", "chunk", "combining",
\* "complete"
Emission(current, message) ==
    [current |-> current, total |-> 100, message |-> message]

\* the emissions so far and whether the progress callback has raised
Emitted(log, raised) == [log |-> log, raised |-> raised]

\* processor.py:51-55: _report_progress calls the callback, with no except
\* clause; the callback raises on emission number fail_at
Emit(em, current, message, fail_at) ==
    IF em.raised THEN em
    ELSE Emitted(Append(em.log, Emission(current, message)),
                 Len(em.log) + 1 = fail_at)

\* processor.py:102-103: chunk_progress, once per log call of the chunker;
\* the emissions stop with the one on which the callback raises
EmitTimes(em, current, message, n, fail_at) ==
    LET before == Len(em.log)
        raises == fail_at > before /\ fail_at <= before + n
        made == IF raises THEN fail_at - before ELSE n
    IN  IF em.raised \/ n = 0 THEN em
        ELSE Emitted(em.log \o [i \in 1..made |-> Emission(current, message)],
                     raises)

\* the exception of a progress callback that raised
SinkError == Error("SinkError", -1)

\* processor.py:91-96: Step 1, for a video
Extract ==
    /\ pc = "start"
    /\ is_video_file(input)
    /\ LET e0 == Emit(Emitted(progress, FALSE), 0, "extracting", sink_fail_at)
       IN  IF e0.raised
           THEN /\ progress' = e0.log
                /\ exc' = SinkError
                /\ pc' = RaiseTo
                /\ UNCHANGED <<fs, written, audio_path, temp_audio_path,
                               was_video, stages>>
           ELSE /\ stages' = Append(stages, "extract")
                /\ \E o \in ExtractOutcomes :
                     LET audio == Audio(0, input.duration_ms, input.size,
                                        "mp3", o = "ok")
                         e1 == Emit(e0, 10, "extracted", sink_fail_at)
                     IN  /\ fs' = IF o \in {"ok", "write_fail_partial"}
                                  THEN WriteFile(fs, ExtractedPathOf(input),
                                                 audio)
                                  ELSE fs
                         /\ written' = IF o \in {"ok", "write_fail_partial"}
                                       THEN written
                                            \cup {ExtractedPathOf(input)}
                                       ELSE written
                         /\ IF o = "ok"
                            THEN /\ audio_path' = ExtractedPathOf(input)
                                 /\ temp_audio_path' = ExtractedPathOf(input)
                                 /\ was_video' = TRUE
                                 /\ progress' = e1.log
                                 /\ pc' = IF e1.raised THEN RaiseTo
                                          ELSE "planning"
                                 /\ exc' = IF e1.raised THEN SinkError ELSE exc
                            ELSE /\ exc' = Error(IF o = "no_audio"
                                                 THEN "ValueError"
                                                 ELSE "ExtractError", -1)
                                 /\ pc' = RaiseTo
                                 /\ progress' = e0.log
                                 /\ UNCHANGED <<audio_path, temp_audio_path,
                                                was_video>>
    /\ UNCHANGED <<input, chunks, results, plan, cur_phase, cur_attempt,
                   cur_last_error, fin, result, outcome, unlink_failed,
                   page_exc, invoked, accepted, oversized, sink_fail_at,
                   clientVars, aggVars, planVars, pairVars>>

\* the log call of the chunker on which the callback raises, when emission
\* number fail_at is that of a log call after `before` emissions
SinkAt(fail_at, before) == IF fail_at > before THEN fail_at - before ELSE 0

\* the exports of the call that did not come out within the ceiling
NumNotWithin(call) ==
    Cardinality({k \in DOMAIN call.seen :
                    /\ call.seen[k].op = "export"
                    /\ call.seen[k].outcome # "within"})

\* what the environment may make of the operation the call comes to: of an
\* export, any outcome until MaxExports exports of the plan have been over
\* the ceiling, and a file within the ceiling after that; of the decoder,
\* success or failure; of an unlink, the removal or its refusal
ExportChoices(call) ==
    IF call.pending = "export" /\ NumNotWithin(call) < MaxExports
    THEN ExportOutcomes ELSE {"within"}
LoadChoices(call) == IF call.pending = "load" THEN BOOLEAN ELSE {TRUE}
DenyChoices(call) == IF call.pending = "unlink" THEN BOOLEAN ELSE {FALSE}

\* processor.py:102-107: chunk_audio makes its next operation on the
\* directory and goes on to the one after it, or to its end; e0: the
\* emissions so far.  What chunk_audio raises (an export or the decoder
\* failing, a stat or an unlink on a file that is gone, an unlink refused)
\* ends the try block.
ChunkAudioStep(e0) ==
    \E o \in ExportChoices(plan), load_ok \in LoadChoices(plan),
       deny \in DenyChoices(plan) :
    \E r \in {chunk_audio(PlanState(fs, plan.seen, "one", o, load_ok,
                                    SinkAt(sink_fail_at,
                                           Len(e0.log) - plan.logs),
                                    deny),
                          audio_path)} :
      LET e1 == EmitTimes(e0, 15, "chunker", r.st.logs - plan.logs,
                          sink_fail_at)
          e2 == Emit(e1, 20, "ready", sink_fail_at)
      IN  /\ fs' = r.st.fs
          /\ written' = written \cup r.st.written
          /\ oversized' = r.st.oversized
          /\ IF r.st.halted
             THEN /\ plan' = CallAt(r.st.seen, r.st.logs, r.st.pending)
                  /\ pc' = "chunking"
                  /\ progress' = e1.log
                  /\ UNCHANGED <<chunks, accepted, exc>>
             ELSE /\ plan' = NoCall
                  /\ IF r.st.failed
                     THEN /\ exc' = IF r.st.sink_raised THEN SinkError
                                    ELSE r.st.error
                          /\ pc' = RaiseTo
                          /\ progress' = e1.log
                          /\ UNCHANGED <<chunks, accepted>>
                     ELSE /\ chunks' = r.chunks
                          /\ accepted' = r.st.accepted
                          /\ progress' = e2.log
                          /\ pc' = IF e2.raised THEN RaiseTo
                                   ELSE "transcribing"
                          /\ exc' = IF e2.raised THEN SinkError ELSE exc

\* processor.py:99-107: Step 2, up to the first operation of chunk_audio on
\* the directory and to the one after it
Plan ==
    /\ \/ pc = "planning"
       \/ pc = "start" /\ ~is_video_file(input)
    /\ LET e0 == Emit(Emitted(progress, FALSE), 15, "loading", sink_fail_at)
       IN  IF e0.raised
           THEN /\ progress' = e0.log
                /\ exc' = SinkError
                /\ pc' = RaiseTo
                /\ UNCHANGED <<fs, written, oversized, chunks, accepted,
                               stages, plan>>
           ELSE /\ stages' = Append(stages, "plan")
                /\ ChunkAudioStep(e0)
    /\ UNCHANGED <<input, audio_path, temp_audio_path, was_video, results,
                   cur_phase, cur_attempt, cur_last_error, fin, result,
                   outcome, unlink_failed, page_exc, invoked, sink_fail_at,
                   clientVars, aggVars, planVars, pairVars>>

\* processor.py:105: the next operation of the chunk_audio call in progress
PlanStep ==
    /\ pc = "chunking"
    /\ ChunkAudioStep(Emitted(progress, FALSE))
    /\ UNCHANGED <<input, audio_path, temp_audio_path, was_video, results,
                   cur_phase, cur_attempt, cur_last_error, fin, result,
                   outcome, unlink_failed, page_exc, invoked, stages,
                   sink_fail_at, clientVars, aggVars, planVars, pairVars>>

\* variant: the chunks taken from the last to the first
NextChunkReversed(chunk_list, done_results) ==
    chunk_list[Len(chunk_list) - Len(done_results)]

\* processor.py:111: for i, chunk in enumerate(chunks); the loop index is
\* the number of results so far
NextChunk(chunk_list, done_results) == chunk_list[Len(done_results) + 1]

\* variant: the count of the five-minute windows of the plan
ChunkCountWindows(chunk_list) ==
    Cardinality({chunk_list[i].start_ms \div ChunkDurationMs :
                    i \in DOMAIN chunk_list})

\* processor.py:106
ChunkCount(chunk_list) == Len(chunk_list)

\* processor.py:125: len(result.text) of a text that is None
LenOfNone == Error("TypeError", -1)

(***************************************************************************)
(* processor.py:112: (i + 1) / chunk_count and the product with 70 are     *)
(* floating-point operations (binary64, round to nearest, ties to even)    *)
(* and int() truncates.  A positive float is its significand, SigBits bits *)
(* from the most significant, which is 1, and the exponent of that bit.    *)
(***************************************************************************)
SigBits == 53
Float(sig, exp) == [sig |-> sig, exp |-> exp]

RECURSIVE LongDivision(_, _, _)
\* the bits of the quotient after `bits`, one more than SigBits in all, and
\* the remainder left
LongDivision(r, n, bits) ==
    IF Len(bits) > SigBits THEN [bits |-> bits, rem |-> r]
    ELSE LongDivision((2 * r) % n, n, Append(bits, (2 * r) \div n))

RECURSIVE Increment(_)
Increment(bits) ==
    IF bits = <<>> THEN <<1>>
    ELSE IF bits[Len(bits)] = 0
    THEN SubSeq(bits, 1, Len(bits) - 1) \o <<1>>
    ELSE Increment(SubSeq(bits, 1, Len(bits) - 1)) \o <<0>>

\* the nearest float to the number of the given bits (the first of them 1,
\* of exponent exp; sticky: a non-zero remainder follows them), ties to even
Round(bits, exp, sticky) ==
    LET kept == SubSeq(bits, 1, SigBits)
        rest == SubSeq(bits, SigBits + 1, Len(bits))
        guard == rest # <<>> /\ rest[1] = 1
        more == sticky \/ \E i \in 2..Len(rest) : rest[i] = 1
        up == guard /\ (more \/ kept[SigBits] = 1)
        inc == Increment(kept)
    IN  IF ~up THEN Float(kept, exp)
        ELSE IF Len(inc) > SigBits
        THEN Float(SubSeq(inc, 1, SigBits), exp + 1)
        ELSE Float(inc, exp)

RECURSIVE Normalise(_, _, _)
\* a / n as a' / n' * 2^exp with 1 <= a' / n' < 2
Normalise(a, n, exp) ==
    IF a < n THEN Normalise(2 * a, n, exp - 1)
    ELSE IF a >= 2 * n THEN Normalise(a, 2 * n, exp + 1)
    ELSE [a |-> a, n |-> n, exp |-> exp]

\* a / n for integers a, n > 0
FloatDiv(a, n) ==
    LET s == Normalise(a, n, 0)
        d == LongDivision(s.a - s.n, s.n, <<1>>)
    IN  Round(d.bits, s.exp, d.rem # 0)

RECURSIVE TimesInt(_, _, _)
\* the bits of bits * c + carry
TimesInt(bits, c, carry) ==
    IF carry = 0 /\ bits = <<>> THEN <<>>
    ELSE LET bit == IF bits = <<>> THEN 0 ELSE bits[Len(bits)]
             t == bit * c + carry
         IN  Append(TimesInt(SubSeq(bits, 1, Len(bits) - 1), c, t \div 2),
                    t % 2)

\* x * c for an integer c > 0
FloatMul(x, c) ==
    LET p == TimesInt(x.sig, c, 0)
    IN  Round(p, x.exp + Len(p) - SigBits, FALSE)

RECURSIVE ValueOf(_)
ValueOf(bits) ==
    IF bits = <<>> THEN 0
    ELSE 2 * ValueOf(SubSeq(bits, 1, Len(bits) - 1)) + bits[Len(bits)]

\* int(x)
Trunc(x) == IF x.exp < 0 THEN 0 ELSE ValueOf(SubSeq(x.sig, 1, x.exp + 1))

\* processor.py:112: 20 + int(((i + 1) / chunk_count) * 70)
ProgressOfChunk(i, chunk_count) ==
    20 + Trunc(FloatMul(FloatDiv(i + 1, chunk_count), 70))

\* client.py:69-71: the top of the loop for `attempt`: the loop is over and
\* the call raises, or the attempt opens the chunk file
LoopTop(attempt, last_error, file_exists) ==
    IF LoopEnds(attempt, DefaultMaxRetries) THEN Exhausted(last_error, <<>>)
    ELSE Open(file_exists, attempt, <<>>)

\* client.py:69-71 and processor.py:120: the call for the next chunk comes
\* to the top of its loop; what it raises ends the try block
EnterAttempt(attempt, last_error) ==
    LET t == LoopTop(attempt, last_error,
                     Exists(fs, NextChunk(chunks, results).path))
    IN  IF t.outcome = "waiting"
        THEN /\ cur_phase' = "waiting"
             /\ cur_attempt' = attempt
             /\ cur_last_error' = last_error
             /\ UNCHANGED <<results, pc, exc>>
        ELSE /\ cur_phase' = "idle"
             /\ cur_attempt' = 0
             /\ cur_last_error' = NoError
             /\ exc' = t.error
             /\ pc' = RaiseTo
             /\ UNCHANGED results

\* processor.py:111-120 and client.py:69-71: one iteration of Step 3, up to
\* the first attempt of client.transcribe opening the chunk file
TranscribeChunk ==
    /\ pc = "transcribing"
    /\ Len(results) < Len(chunks)
    /\ cur_phase = "idle"
    /\ LET chunk == NextChunk(chunks, results)
           e0 == Emit(Emitted(progress, FALSE),
                      ProgressOfChunk(Len(results), ChunkCount(chunks)),
                      "chunk", sink_fail_at)
       IN  /\ progress' = e0.log
           /\ IF e0.raised
              THEN /\ exc' = SinkError
                   /\ pc' = RaiseTo
                   /\ UNCHANGED <<stages, invoked, results, cur_phase,
                                  cur_attempt, cur_last_error>>
              ELSE /\ stages' = Append(stages, "transcribe")
                   /\ invoked' = Append(invoked, chunk.index)
                   /\ EnterAttempt(0, NoError)
    /\ UNCHANGED <<input, fs, audio_path, temp_audio_path, was_video, chunks,
                   plan, fin, result, outcome, unlink_failed, page_exc,
                   written, accepted, oversized, sink_fail_at, clientVars,
                   aggVars, planVars, pairVars>>

\* client.py:72-103 and processor.py:120-126: the service answers the
\* attempt in progress, which holds the file open.  A result is appended,
\* unless len(result.text) raises on it; an error is caught, and the except
\* clause goes to sleep or the loop goes on at once.
TranscribeAnswer ==
    /\ pc = "transcribing"
    /\ cur_phase = "waiting"
    /\ \E response \in ServiceResponses :
         LET a == Answered(response, DefaultMaxRetries, DefaultRetryDelay,
                           DefaultResponseFormat, cur_attempt, <<>>)
         IN  IF a.outcome = "returned"
             THEN /\ cur_phase' = "idle"
                  /\ cur_attempt' = 0
                  /\ cur_last_error' = NoError
                  /\ IF a.result.text # NullText
                     THEN /\ results' = Append(results, a.result)
                          /\ UNCHANGED <<pc, exc>>
                     ELSE /\ exc' = LenOfNone
                          /\ pc' = RaiseTo
                          /\ UNCHANGED results
             ELSE IF Sleeps(a)
             THEN /\ cur_phase' = "sleeping"
                  /\ cur_last_error' = a.error
                  /\ UNCHANGED <<cur_attempt, results, pc, exc>>
             ELSE EnterAttempt(cur_attempt + 1, a.error)
    /\ UNCHANGED <<input, fs, audio_path, temp_audio_path, was_video, chunks,
                   plan, fin, result, outcome, unlink_failed, page_exc,
                   invoked, written, accepted, oversized, stages,
                   sink_fail_at, progress, clientVars, aggVars, planVars,
                   pairVars>>

\* client.py:98, 103 and 69-71, 105: the call in progress wakes from its
\* sleep and comes to the top of the loop
TranscribeRetry ==
    /\ pc = "transcribing"
    /\ cur_phase = "sleeping"
    /\ EnterAttempt(cur_attempt + 1, cur_last_error)
    /\ UNCHANGED <<input, fs, audio_path, temp_audio_path, was_video, chunks,
                   plan, fin, result, outcome, unlink_failed, page_exc,
                   invoked, written, accepted, oversized, stages,
                   sink_fail_at, progress, clientVars, aggVars, planVars,
                   pairVars>>

\* processor.py:128-151: Step 4 and the return statement
Aggregate ==
    /\ pc = "transcribing"
    /\ Len(results) = Len(chunks)
    /\ LET e0 == Emit(Emitted(progress, FALSE), 95, "combining", sink_fail_at)
           e1 == Emit(e0, 100, "complete", sink_fail_at)
       IN  /\ progress' = e1.log
           /\ stages' = IF e0.raised THEN stages
                         ELSE Append(stages, "aggregate")
           /\ IF e1.raised
              THEN /\ exc' = SinkError
                   /\ pc' = RaiseTo
                   /\ UNCHANGED result
              ELSE /\ result' = ProcessingResult(results, chunks,
                                                 ChunkCount(chunks), was_video)
                   /\ pc' = "cleanup"
                   /\ exc' = exc
    /\ UNCHANGED <<input, fs, audio_path, temp_audio_path, was_video, chunks,
                   results, plan, cur_phase, cur_attempt, cur_last_error,
                   fin, outcome, unlink_failed, page_exc, invoked, written,
                   accepted, oversized, sink_fail_at, clientVars, aggVars,
                   planVars, pairVars>>

\* processor.py:159-162: the body of the finally clause; cleanup_chunks
\* raising skips extractor.cleanup
TempRemoved(s1, temp_path) ==
    IF Stopped(s1) \/ temp_path = NoPath THEN s1 ELSE cleanup(s1, temp_path)

Finally(st, chunk_list, temp_path) ==
    TempRemoved(cleanup_chunks(st, chunk_list), temp_path)

\* processor.py:143-162: what leaves process(): an exception raised in the
\* finally clause replaces the pending return value or exception
Leaves(try_exc, st) ==
    IF st.failed THEN CallerGetsError(st.error)
    ELSE IF try_exc # NoError THEN CallerGetsError(try_exc)
    ELSE CallerGetsResult

\* processor.py:157-162: the finally clause makes its next operation on the
\* directory and goes on to the one after it, or to its end; the
\* environment may refuse an unlink
Cleanup ==
    /\ pc = "cleanup"
    /\ stages' = IF fin = NoCall THEN Append(stages, "cleanup") ELSE stages
    /\ \E deny \in DenyChoices(fin) :
       \E r \in {Finally(Session(fs, fin.seen, "one", deny), chunks,
                         temp_audio_path)} :
         /\ fs' = r.fs
         /\ IF r.halted
            THEN /\ fin' = CallAt(r.seen, 0, r.pending)
                 /\ UNCHANGED <<pc, outcome, unlink_failed>>
            ELSE /\ fin' = NoCall
                 /\ unlink_failed' = r.raised_at
                 /\ outcome' = Leaves(exc, r)
                 /\ pc' = "done"
    /\ UNCHANGED <<input, audio_path, temp_audio_path, was_video, chunks,
                   results, plan, cur_phase, cur_attempt, cur_last_error,
                   exc, result, page_exc, invoked, written, accepted,
                   oversized, sink_fail_at, progress, clientVars, aggVars,
                   planVars, pairVars>>

\* ui/pages.py:90-91: if file_path.exists(): file_path.unlink(), with no
\* except clause around it
UploadRemoved(s1, file_path) ==
    IF Stopped(s1) \/ ~s1.found THEN s1 ELSE UnlinkPath(s1, file_path)

\* ui/pages.py:88-91: the finally clause of the transcribe tab
remove_upload(st, file_path) ==
    UploadRemoved(PathExists(st, file_path), file_path)

\* ui/pages.py:61-91: process() has returned (lines 67-83 show and store the
\* result and leave the working directory alone) or raised (the except
\* clause shows the error), and the finally clause makes its next operation
\* on the directory: it tests for the upload, or unlinks it.  The
\* environment may refuse the unlink; what the unlink raises leaves
\* main_page.
RemoveUpload ==
    /\ pc \in {"done", "closing"}
    /\ \E deny \in DenyChoices(fin) :
       \E r \in {remove_upload(Session(fs, fin.seen, "one", deny),
                               InputPathOf(input))} :
         /\ fs' = r.fs
         /\ IF r.halted
            THEN /\ fin' = CallAt(r.seen, 0, r.pending)
                 /\ pc' = "closing"
                 /\ UNCHANGED page_exc
            ELSE /\ fin' = NoCall
                 /\ pc' = "closed"
                 /\ page_exc' = r.error
    /\ UNCHANGED <<input, audio_path, temp_audio_path, was_video, chunks,
                   results, plan, cur_phase, cur_attempt, cur_last_error,
                   exc, result, outcome, unlink_failed, invoked, written,
                   accepted, oversized, stages, sink_fail_at, progress,
                   clientVars, aggVars, planVars, pairVars>>

Next ==
    Extract \/ Plan \/ PlanStep \/ TranscribeChunk \/ TranscribeAnswer
        \/ TranscribeRetry \/ Aggregate \/ Cleanup \/ RemoveUpload

Spec == Init /\ [][Next]_vars

(***************************************************************************)
(* process() with a progress callback that raises on one emission          *)
(***************************************************************************)
SinkInit ==
    /\ input \in InputFiles
    /\ sink_fail_at \in 1..MaxSinkFail
    /\ ProcInit("start")
    /\ ClientIdle
    /\ AggIdle
    /\ PlanIdle
    /\ PairIdle

SinkSpec == SinkInit /\ [][Next]_vars

(***************************************************************************)
(* One call of transcribe()                                                *)
(***************************************************************************)
\* whether the file is there at each of n attempts: there for the first e
\* of them and gone from then on (the call ends with the first attempt that
\* does not find it)
FileTimelines(n) == {[k \in 1..n |-> k <= e] : e \in 0..n}

ClientInit ==
    /\ input = NoInputFile
    /\ sink_fail_at = 0
    /\ ProcInit("off")
    /\ AggIdle
    /\ PlanIdle
    /\ PairIdle
    /\ c_pc = "ready"
    /\ c_ret = NoClientReturn
    /\ \E m \in 0..MaxRetriesBound :
         c_in \in [responses : [1..(m + 1) -> ServiceResponses],
                   max_retries : {m},
                   retry_delay : 1..MaxDelayBound,
                   file_exists : FileTimelines(m + 1),
                   response_format : ResponseFormats]

\* the service has an answer ready for one attempt more than max_retries
\* allows, and the file is there or not at each of them
TranscribeCall ==
    /\ c_pc = "ready"
    /\ c_ret' = transcribe(c_in.responses, c_in.max_retries, c_in.retry_delay,
                           c_in.file_exists, c_in.response_format)
    /\ c_pc' = "done"
    /\ UNCHANGED <<c_in, procVars, aggVars, planVars, pairVars>>

ClientNext == TranscribeCall

ClientSpec == ClientInit /\ [][ClientNext]_vars

(***************************************************************************)
(* Step 4 alone: the aggregation of given per-chunk results                *)
(***************************************************************************)
\* the per-chunk results the aggregation is tried on: texts "Hello", "",
\* " ", "\n yo \t", "\r\n", "world", "ok" between a no-break space and an
\* ideographic space, and None; languages unset, en, fr; segment lists of
\* length 0, 1 and 2
AggResults ==
    { [text |-> <<"H", "e", "l", "l", "o">>, language |-> "en",
       segments |-> <<"s1">>],
      [text |-> <<>>, language |-> None, segments |-> <<>>],
      [text |-> <<" ">>, language |-> "fr", segments |-> <<"s2">>],
      [text |-> <<"\n", " ", "y", "o", " ", "\t">>, language |-> None,
       segments |-> <<"s3", "s4">>],
      [text |-> <<"\r", "\n">>, language |-> "en", segments |-> <<>>],
      [text |-> <<"w", "o", "r", "l", "d">>, language |-> "fr",
       segments |-> <<>>],
      [text |-> <<"U+00A0", "o", "k", "U+3000">>, language |-> "en",
       segments |-> <<>>],
      [text |-> NullText, language |-> "en", segments |-> <<>>] }

\* one chunk of one second per result
AggChunks(n) ==
    [i \in 1..n |-> AudioChunk(ChunkPath(i - 1), i - 1, (i - 1) * 1000, i * 1000)]

AggInit ==
    /\ input = NoInputFile
    /\ sink_fail_at = 0
    /\ ProcInit("off")
    /\ ClientIdle
    /\ PlanIdle
    /\ PairIdle
    /\ a_pc = "ready"
    /\ a_out = NoProcessingResult
    /\ a_in \in UNION {[1..n -> AggResults] : n \in 0..MaxAggResults}

\* processor.py:128-151 on the given results
AggregateCall ==
    /\ a_pc = "ready"
    /\ a_out' = ProcessingResult(a_in, AggChunks(Len(a_in)),
                                 ChunkCount(AggChunks(Len(a_in))), FALSE)
    /\ a_pc' = "done"
    /\ UNCHANGED <<a_in, procVars, clientVars, planVars, pairVars>>

AggNext == AggregateCall

AggSpec == AggInit /\ [][AggNext]_vars

(***************************************************************************)
(* One call of chunk_audio()                                               *)
(***************************************************************************)
\* the working directory before the call: the audio file alone
PlanFiles(in) ==
    [q \in {InputPath} |-> Audio(0, in.duration_ms, in.size, "source", TRUE)]

\* the call is made on an audio file of each duration and size; the
\* environment chooses the outcome of its exports one by one until
\* MaxExports of them have been over the ceiling, and the exports after
\* them all come out within the ceiling or all over it (`rest`)
PlanInit ==
    /\ input = NoInputFile
    /\ sink_fail_at = 0
    /\ ProcInit("off")
    /\ ClientIdle
    /\ AggIdle
    /\ PairIdle
    /\ p_pc = "ready"
    /\ p_in \in [duration_ms : Durations, size : AudioSizes,
                 rest : {"within", "over"}]
    /\ p_out = Planned(PlanState(PlanFiles(p_in), <<>>, "one", p_in.rest, TRUE, 0, FALSE), <<>>)

\* the call in progress
PlanCallAt == CallAt(p_out.st.seen, p_out.st.logs, p_out.st.pending)

\* the outcome of the export the call comes to
PlanExportChoices ==
    IF p_out.st.pending = "export" /\ NumNotWithin(PlanCallAt) >= MaxExports
    THEN {p_in.rest} ELSE ExportChoices(PlanCallAt)

\* chunker.py:60-160: the call makes its next operation on the directory
\* and goes on to the one after it, or to its end
PlanCall ==
    /\ p_pc \in {"ready", "chunking"}
    /\ \E o \in PlanExportChoices, load_ok \in LoadChoices(PlanCallAt),
          deny \in DenyChoices(PlanCallAt) :
       \E r \in {chunk_audio(PlanState(p_out.st.fs, p_out.st.seen, "one", o, load_ok, 0, deny),
                             InputPath)} :
         /\ p_out' = r
         /\ p_pc' = IF r.st.halted THEN "chunking" ELSE "done"
    /\ UNCHANGED <<p_in, procVars, clientVars, aggVars, pairVars>>

PlanNext == PlanCall

\* a call that has been made goes on, operation after operation, until it
\* returns or raises: weak fairness of PlanCall, with ENABLED
\* <<PlanCall>>_vars written out as what it amounts to, p_pc # "done"
PlanFair == []<>(p_pc = "done") \/ []<><<PlanCall>>_vars

PlanSpec == PlanInit /\ [][PlanNext]_vars /\ PlanFair

(***************************************************************************)
(* Two runs of process() on one working directory.  This run is modelled   *)
(* in full, from the entry of process() to the end of main_page; of the    *)
(* other run, the steps that work on the directory of the chunk files: its *)
(* Step 2 and the cleanup_chunks of its finally clause (its transcriptions *)
(* only read).                                                             *)
(***************************************************************************)
OtherInputPath == <<"input", 1>>

\* the audio files given to the two runs, all over the ceiling and of
\* different durations: to this run a file of a plain name, or an upload
\* named chunk_0000.mp3
PairInput ==
    [is_video |-> FALSE, duration_ms |-> 40000,
     size |-> MaxChunkSizeBytes + 1, stem |-> InputPath]
PairUpload ==
    [is_video |-> FALSE, duration_ms |-> 12000,
     size |-> MaxChunkSizeBytes + 1, stem |-> ChunkPath(0)]
OtherInput ==
    [is_video |-> FALSE, duration_ms |-> 15000,
     size |-> MaxChunkSizeBytes + 1, stem |-> InputPath]

PairInit ==
    /\ input \in {PairInput, PairUpload}
    /\ sink_fail_at = 0
    /\ pc = "start"
    /\ fs = [q \in {InputPathOf(input), OtherInputPath} |->
               IF q = OtherInputPath
               THEN Audio(0, OtherInput.duration_ms, OtherInput.size, "source", TRUE)
               ELSE Audio(0, input.duration_ms, input.size, "source", TRUE)]
    /\ audio_path = InputPathOf(input)
    /\ temp_audio_path = NoPath
    /\ was_video = FALSE
    /\ chunks = <<>>
    /\ results = <<>>
    /\ plan = NoCall
    /\ cur_phase = "idle"
    /\ cur_attempt = 0
    /\ cur_last_error = NoError
    /\ fin = NoCall
    /\ exc = NoError
    /\ result = NoProcessingResult
    /\ outcome = Pending
    /\ unlink_failed = NoPath
    /\ page_exc = NoError
    /\ invoked = <<>>
    /\ written = {}
    /\ accepted = <<>>
    /\ oversized = 0
    /\ stages = <<>>
    /\ progress = <<>>
    /\ ClientIdle
    /\ AggIdle
    /\ PlanIdle
    /\ o_pc = "start"
    /\ o_call = NoCall
    /\ o_chunks = <<>>
    /\ o_log = {}

\* what the operation the other run has just made did to the directory
\* when this run has its plan: the operation (an export or a discard of its
\* plan, a removal of its cleanup) and the path
OtherStep(st, stage) ==
    IF st.touched = NoPath \/ pc # "transcribing" THEN {}
    ELSE {[op |-> IF stage = "cleanup" THEN "cleanup"
                  ELSE IF st.seen[Len(st.seen)].op = "export" THEN "export"
                  ELSE "discard",
           path |-> st.touched]}

\* processor.py:105 in the other run: the next operation of chunk_audio on
\* its own audio file, by the chunker of that run; the environment chooses
\* the outcome of its decoder, of its exports and of its unlink.  A call
\* that raises leaves the run without a chunk list (processor.py:87).
OtherPlan ==
    /\ o_pc \in {"start", "chunking"}
    /\ \E o \in ExportChoices(o_call), load_ok \in LoadChoices(o_call),
          deny \in DenyChoices(o_call) :
       \E r \in {chunk_audio(OfRun(PlanState(fs, o_call.seen, "one", o,
                                             load_ok, 0, deny),
                                   "other"),
                             OtherInputPath)} :
         /\ fs' = r.st.fs
         /\ o_log' = o_log \cup OtherStep(r.st, "plan")
         /\ IF r.st.halted
            THEN /\ o_call' = CallAt(r.st.seen, 0, r.st.pending)
                 /\ o_pc' = "chunking"
                 /\ UNCHANGED o_chunks
            ELSE /\ o_call' = NoCall
                 /\ o_pc' = "planned"
                 /\ o_chunks' = IF r.st.failed THEN <<>> ELSE r.chunks
    /\ UNCHANGED <<procVarsButFs, clientVars, aggVars, planVars>>

\* processor.py:160 in the other run: the next operation of cleanup_chunks
\* on its own list; the environment may refuse the unlink, and an unlink
\* that raises ends the call
OtherCleanup ==
    /\ o_pc \in {"planned", "cleanup"}
    /\ \E deny \in DenyChoices(o_call) :
       \E r \in {cleanup_chunks(Session(fs, o_call.seen, "one", deny),
                                o_chunks)} :
         /\ fs' = r.fs
         /\ o_log' = o_log \cup OtherStep(r, "cleanup")
         /\ IF r.halted
            THEN /\ o_call' = CallAt(r.seen, 0, r.pending)
                 /\ o_pc' = "cleanup"
            ELSE /\ o_call' = NoCall
                 /\ o_pc' = "done"
    /\ UNCHANGED <<procVarsButFs, clientVars, aggVars, planVars, o_chunks>>

PairNext ==
    Plan \/ PlanStep \/ TranscribeChunk \/ TranscribeAnswer
        \/ TranscribeRetry \/ Aggregate \/ Cleanup \/ RemoveUpload
        \/ OtherPlan \/ OtherCleanup

PairSpec == PairInit /\ [][PairNext]_vars

(***************************************************************************)
(* Properties                                                              *)
(***************************************************************************)
\* process() has come to its finally clause or left it
Leaving == pc \in {"cleanup", "done", "closing", "closed"}

\* an iteration of the transcription loop raised: the client did, or
\* len(result.text) did on a result without text (processor.py:125)
TranscriptionFailed ==
    \/ exc.kind \in {"RateLimitError", "APIError", "PermanentAPIError",
                     "Exception", "TypeError"}
    \/ exc.kind = "FileNotFoundError" /\ exc.attempt >= 0

\* extraction raised
ExtractionFailed == exc.kind \in {"ValueError", "ExtractError"}

\* chunk_audio raised: the decoder or an export did, or a stat or an unlink
\* of its own on a file that was gone, or an unlink that was refused (what
\* the finally clause raises is no exception of the try block)
PlanFailed ==
    \/ exc.kind \in {"ChunkingError", "PermissionError"}
    \/ exc.kind = "FileNotFoundError" /\ exc.attempt < 0

\* chunk_audio has returned its list to process()
PlanReturned ==
    \/ pc = "transcribing"
    \/ Leaving /\ ~ExtractionFailed /\ ~PlanFailed

\* the audio handed to the chunker is over the ceiling
OverCeiling == input.size > MaxChunkSizeBytes

\* C1: once process() has returned or raised, no file written during the run
\* (chunk file or extracted audio) exists any more.
C1_NoArtifactRemains ==
    pc = "done" => \A p \in written : ~Exists(fs, p)

\* C2: in the chunk list returned for an over-ceiling input no two chunks
\* have the same path.
C2_ChunkPathsDistinct ==
    (PlanReturned /\ OverCeiling) =>
        \A i, j \in DOMAIN chunks : i # j => chunks[i].path # chunks[j].path

\* adjacent chunks meet, start_ms is strictly ascending, indices are 0, 1,
\* 2, ... and duration_ms is end_ms - start_ms
Tiled ==
    /\ \A i \in 1..(Len(chunks) - 1) :
          /\ chunks[i].end_ms = chunks[i + 1].start_ms
          /\ chunks[i].start_ms < chunks[i + 1].start_ms
    /\ \A i \in DOMAIN chunks :
          /\ chunks[i].index = i - 1
          /\ chunks[i].duration_ms = chunks[i].end_ms - chunks[i].start_ms

\* C3: for every input the returned chunk list is contiguous and ordered:
\* it has a first chunk, which starts at 0, and a last chunk, which ends at
\* the total duration of the source; adjacent chunks meet, start_ms is
\* strictly ascending, indices are 0, 1, 2, ... and duration_ms is
\* end_ms - start_ms.
C3_ContiguousOrdered ==
    PlanReturned =>
        /\ chunks # <<>>
        /\ chunks[1].start_ms = 0
        /\ chunks[Len(chunks)].end_ms = input.duration_ms
        /\ Tiled

\* C3 holds of every list that has a chunk, bisected windows included, and
\* the list has one whenever the source has a duration.
C3_WhenPlanNotEmpty ==
    PlanReturned =>
        /\ chunks = <<>> => (OverCeiling /\ input.duration_ms = 0)
        /\ chunks # <<>> =>
              /\ chunks[1].start_ms = 0
              /\ chunks[Len(chunks)].end_ms = input.duration_ms
        /\ Tiled

\* C4 as stated: for an over-ceiling input every returned chunk was exported
\* within the ceiling or lasts at most 10 seconds, and every chunk longer
\* than 10 seconds was size-checked and found within the ceiling.
C4_SizeOrTenSeconds ==
    (PlanReturned /\ OverCeiling) =>
        /\ Len(accepted) = Len(chunks)
        /\ \A i \in DOMAIN chunks :
              /\ \/ accepted[i].size <= MaxChunkSizeBytes
                 \/ chunks[i].duration_ms <= MinHalfMs
              /\ chunks[i].duration_ms > MinHalfMs =>
                    accepted[i].checked /\ accepted[i].size <= MaxChunkSizeBytes

\* C4 amended: for an over-ceiling input every returned chunk was size-checked
\* and exported within the ceiling, or lasts less than 20 seconds (twice the
\* 10-second floor: a window whose half would be under the floor).
C4_SizeOrUnderTwiceFloor ==
    (PlanReturned /\ OverCeiling) =>
        /\ Len(accepted) = Len(chunks)
        /\ \A i \in DOMAIN chunks :
              \/ accepted[i].checked /\ accepted[i].size <= MaxChunkSizeBytes
              \/ chunks[i].duration_ms < 2 * MinHalfMs

\* C4 witness: a returned chunk longer than 10 seconds that was accepted
\* oversized and without a size check.
C4_Witness ==
    /\ PlanReturned
    /\ OverCeiling
    /\ \E i \in DOMAIN chunks :
          /\ i \in DOMAIN accepted
          /\ ~accepted[i].checked
          /\ accepted[i].size > MaxChunkSizeBytes
          /\ chunks[i].duration_ms > MinHalfMs

----------------------------------------------------------------------------
\* The trace of one transcribe call
Trace == c_ret.trace
Called(k) == \E i \in DOMAIN Trace : Trace[i] = Call(k)
PosOf(k) == CHOOSE i \in DOMAIN Trace : Trace[i] = Call(k)
\* what happened between attempt k and attempt k + 1
Between(k) == SubSeq(Trace, PosOf(k) + 1, PosOf(k + 1) - 1)
\* what happened after attempt k
After(k) == SubSeq(Trace, PosOf(k) + 1, Len(Trace))
Answer(k) == c_in.responses[k + 1]
Attempts == 0..(c_in.max_retries - 1)
NumCalls == Cardinality({i \in DOMAIN Trace : Trace[i].ev = "call"})
\* the file is there at every attempt
FileStays == \A k \in DOMAIN c_in.file_exists : c_in.file_exists[k]

RECURSIVE TotalWait(_)
\* the seconds slept in a trace
TotalWait(trace) ==
    IF trace = <<>> THEN 0
    ELSE (IF Head(trace).ev = "sleep" THEN Head(trace).n ELSE 0)
         + TotalWait(Tail(trace))

\* C5: a rate limit at attempt k is followed, before attempt k + 1, by one
\* wait of retry_delay * 2^k; no other failure is followed by a wait longer
\* than retry_delay; with max_retries = 3, retry_delay = 1 and every attempt
\* rate-limited the waits between the attempts are 1 and 2 and the call
\* raises the rate-limit error.
C5_RateLimitBackoff ==
    c_pc = "done" =>
        /\ \A k \in Attempts :
              (Called(k) /\ Called(k + 1)) =>
                 IF Answer(k).kind = "rate_limit"
                 THEN Between(k) = <<Sleep(c_in.retry_delay * (2 ^ k))>>
                 ELSE \A j \in DOMAIN Between(k) :
                         Between(k)[j].n <= c_in.retry_delay
        /\ ( /\ c_in.max_retries = 3
             /\ c_in.retry_delay = 1
             /\ FileStays
             /\ \A k \in Attempts : Answer(k).kind = "rate_limit" ) =>
              /\ NumCalls = 3
              /\ Between(0) = <<Sleep(1)>>
              /\ Between(1) = <<Sleep(2)>>
              /\ c_ret.outcome = "raised"
              /\ c_ret.error.kind = "RateLimitError"

\* C5 witness: max_retries = 3, retry_delay = 1, three rate limits, raised.
C5_Witness ==
    /\ c_pc = "done"
    /\ c_in.max_retries = 3
    /\ c_in.retry_delay = 1
    /\ FileStays
    /\ \A k \in Attempts : Answer(k).kind = "rate_limit"
    /\ c_ret.outcome = "raised"

\* C6: one call of transcribe makes at most max_retries calls to the service,
\* and a call that succeeds is the last thing it does: it returns that call's
\* result with no further call and no wait.
C6_BoundedAttempts ==
    c_pc = "done" =>
        /\ NumCalls <= c_in.max_retries
        /\ \A i \in DOMAIN Trace :
              (Trace[i].ev = "call" /\ Answer(Trace[i].n).kind = "ok") =>
                 /\ i = Len(Trace)
                 /\ c_ret.outcome = "returned"
                 /\ c_ret.result = ParseResponse(c_in.response_format,
                                                 Answer(Trace[i].n))

\* C6 witness: the third of three allowed attempts succeeded after two
\* failures.
C6_Witness ==
    /\ c_pc = "done"
    /\ c_in.max_retries = 3
    /\ c_ret.outcome = "returned"
    /\ NumCalls = 3

\* C7: an error of the service that is not a rate limit is followed by a wait
\* of exactly retry_delay before the next attempt, whatever the attempt
\* index, and by nothing at all on the final allowed attempt (the next
\* attempt calls the service when it still finds the file).
C7_FixedDelay ==
    c_pc = "done" =>
        \A k \in Attempts :
            (Called(k) /\ Answer(k).kind \in {"api_error", "permanent"}) =>
                IF k < c_in.max_retries - 1
                THEN /\ After(k) # <<>>
                     /\ Head(After(k)) = Sleep(c_in.retry_delay)
                     /\ c_in.file_exists[k + 2] =>
                           /\ Called(k + 1)
                           /\ Between(k) = <<Sleep(c_in.retry_delay)>>
                ELSE After(k) = <<>>

\* C7 witness: three attempts, the service failing (no rate limit) on the
\* second and on the final one.
C7_Witness ==
    /\ c_pc = "done"
    /\ c_in.max_retries = 3
    /\ Called(2)
    /\ Answer(1).kind = "api_error"
    /\ Answer(2).kind = "api_error"

\* every allowed attempt was made and failed
AllAttemptsFailed ==
    /\ FileStays
    /\ \A k \in Attempts : Answer(k).kind # "ok"

ErrorKindOf(response) ==
    CASE response.kind = "rate_limit" -> "RateLimitError"
      [] response.kind = "api_error" -> "APIError"
      [] response.kind = "permanent" -> "PermanentAPIError"
      [] OTHER -> None

\* C8: when every allowed attempt fails, the error raised is that of the last
\* attempt; with max_retries = 0 no attempt is made and the generic error is
\* raised; no result is returned either way.
C8_LastErrorRaised ==
    (c_pc = "done" /\ AllAttemptsFailed) =>
        /\ c_ret.outcome = "raised"
        /\ c_ret.result = NoResult
        /\ c_in.max_retries > 0 =>
              c_ret.error = Error(ErrorKindOf(Answer(c_in.max_retries - 1)),
                                  c_in.max_retries - 1)
        /\ c_in.max_retries = 0 =>
              /\ c_ret.error = Error("Exception", -1)
              /\ NumCalls = 0

\* C8 witness: three failed attempts, the first a rate limit and the last
\* another error.
C8_Witness ==
    /\ c_pc = "done"
    /\ AllAttemptsFailed
    /\ c_in.max_retries = 3
    /\ Answer(0).kind = "rate_limit"
    /\ Answer(2).kind = "api_error"
    /\ c_ret.error.attempt = 2

\* C9: an error of a permanent class ends the call at once: the attempt that
\* met it is the last thing the call does (no wait, no further attempt).
C9_PermanentFailsAtOnce ==
    c_pc = "done" =>
        \A k \in Attempts :
            (Called(k) /\ Answer(k).kind = "permanent") =>
                /\ After(k) = <<>>
                /\ c_ret.outcome = "raised"
                /\ c_ret.error = Error("PermanentAPIError", k)

----------------------------------------------------------------------------
\* client.transcribe has been called for a chunk and has not yet returned
\* or raised
CallInProgress == cur_phase # "idle"

\* C10: the client is invoked for chunk 0, 1, 2, ... in that order, once
\* each, the next only after the previous returned a result; after an
\* invocation that failed there is no further invocation, and a run that
\* succeeds has invoked it for every chunk.
C10_SequentialInvocations ==
    /\ \A j \in DOMAIN invoked : invoked[j] = j - 1
    /\ Len(invoked) <= Len(chunks)
    /\ IF TranscriptionFailed \/ CallInProgress
       THEN Len(invoked) = Len(results) + 1
       ELSE Len(invoked) = Len(results)
    /\ (pc = "done" /\ exc = NoError) => Len(invoked) = Len(chunks)

\* C10 witness: a run that ended after the client failed on its second or a
\* later chunk, with chunks left.
C10_Witness ==
    /\ pc = "done"
    /\ TranscriptionFailed
    /\ Len(invoked) >= 2
    /\ Len(invoked) < Len(chunks)


\* the stage has been entered during the run
Stage(name) == \E i \in DOMAIN stages : stages[i] = name

\* the number of times the stage has been entered
StageCount(name) == Cardinality({i \in DOMAIN stages : stages[i] = name})

\* the try block of process() reached its return statement
Succeeded == Leaving /\ exc = NoError

\* C11: extraction is invoked exactly when the input is recognised as a
\* video; when extraction fails the run ends in failure and neither the
\* splitter nor the transcription client is ever invoked.
C11_ExtractionIffVideo ==
    /\ pc # "start" => (Stage("extract") <=> input.is_video)
    /\ ExtractionFailed =>
          /\ ~Stage("plan")
          /\ ~Stage("transcribe")
          /\ invoked = <<>>
          /\ result = NoProcessingResult
          /\ pc = "done" => outcome.kind = "raised"

\* C11 witness: a video whose extraction raised has ended in failure.
C11_Witness ==
    /\ pc = "done"
    /\ input.is_video
    /\ exc.kind = "ValueError"
    /\ stages = <<"extract", "cleanup">>
    /\ outcome.kind = "raised"

\* C12: when a stage fails, process() returns no ProcessingResult, no later
\* stage is entered, and the cleanup step has run by the time the error
\* reaches the caller; on success too the cleanup step has run by the time
\* the result reaches the caller.
C12_FailureSkipsToCleanup ==
    /\ pc = "done" =>
          /\ stages[Len(stages)] = "cleanup"
          /\ StageCount("cleanup") = 1
          /\ outcome.kind # "pending"
    /\ exc # NoError =>
          /\ result = NoProcessingResult
          /\ outcome.kind # "returned"
          /\ ~Stage("aggregate")
          /\ Leaving
    /\ ExtractionFailed => ~Stage("plan") /\ ~Stage("transcribe")
    /\ PlanFailed => ~Stage("transcribe")
    /\ TranscriptionFailed => StageCount("transcribe") = Len(results) + 1
    /\ (pc = "done" /\ exc = NoError) =>
          /\ result # NoProcessingResult
          /\ Len(stages) >= 2
          /\ stages[Len(stages) - 1] = "aggregate"

\* C12 witness: the second chunk's transcription raised with a chunk still
\* to come, and the error has reached the caller.
C12_Witness ==
    /\ pc = "done"
    /\ TranscriptionFailed
    /\ Len(results) = 1
    /\ Len(chunks) >= 3
    /\ outcome = CallerGetsError(exc)

\* C13: when an export raises part-way through planning, after a chunk file
\* has been written, no chunk file written so far is left once the error
\* has reached the caller (here even with every unlink succeeding and only
\* completely written files counted).
C13_PlanFailureLeavesNoChunk ==
    (pc = "done" /\ exc.kind = "ChunkingError" /\ unlink_failed = NoPath) =>
        \A p \in written :
            (IsChunkName(p) /\ Exists(fs, p)) => ~fs[p].complete

\* the files of the plan and the extracted audio are gone
PlanFilesDeleted ==
    /\ \A i \in DOMAIN chunks :
          IsChunkName(chunks[i].path) => ~Exists(fs, chunks[i].path)
    /\ temp_audio_path # NoPath => ~Exists(fs, temp_audio_path)

\* C14: when the transcription of a chunk fails with the retries exhausted,
\* every chunk file of the plan and the extracted audio, if any, are deleted
\* and the caller receives that transcription error.
C14_TranscriptionFailureCleansUp ==
    (pc = "done" /\ TranscriptionFailed) =>
        /\ PlanFilesDeleted
        /\ outcome = CallerGetsError(exc)

\* C14 holds in the runs where no unlink raises.
C14_WhenEveryUnlinkSucceeds ==
    (pc = "done" /\ TranscriptionFailed /\ unlink_failed = NoPath) =>
        /\ PlanFilesDeleted
        /\ outcome = CallerGetsError(exc)

\* C15: when the deletion of a chunk file or of the extracted audio fails
\* during cleanup, the deletion of the other files is still carried out and
\* the caller receives the outcome the run had before cleanup, never the
\* cleanup failure.
C15_CleanupFailureTolerated ==
    (pc = "done" /\ unlink_failed # NoPath) =>
        /\ \A i \in DOMAIN chunks :
              (IsChunkName(chunks[i].path) /\ chunks[i].path # unlink_failed)
                  => ~Exists(fs, chunks[i].path)
        /\ (temp_audio_path # NoPath /\ temp_audio_path # unlink_failed)
              => ~Exists(fs, temp_audio_path)
        /\ outcome = IF exc # NoError THEN CallerGetsError(exc)
                     ELSE CallerGetsResult

RECURSIVE TrimmedNonEmpty(_)
\* the texts trimmed, those empty after trimming dropped (a result without
\* text has none to contribute)
TrimmedNonEmpty(texts) ==
    IF texts = <<>> THEN <<>>
    ELSE (IF Head(texts).text # NullText /\ Strip(Head(texts).text) # <<>>
          THEN <<Strip(Head(texts).text)>>
          ELSE <<>>) \o TrimmedNonEmpty(Tail(texts))

\* no space at either end and no two spaces in a row
SingleSpaced(t) ==
    /\ t # <<>> => ~IsSpace(t[1]) /\ ~IsSpace(t[Len(t)])
    /\ \A i \in 1..(Len(t) - 1) : ~(IsSpace(t[i]) /\ IsSpace(t[i + 1]))

\* C16: the combined text is the per-chunk texts, each trimmed, those empty
\* after trimming dropped, joined in index order by exactly one space.
C16_TrimmedJoin ==
    a_pc = "done" =>
        /\ a_out.text = Join(TrimmedNonEmpty(a_in))
        /\ SingleSpaced(a_out.text)

\* C17: on a successful run chunk_count is the number of chunks of the
\* final plan, sub-chunks counted, and the number of results aggregated;
\* total_duration_ms is the sum of the planned durations and the duration
\* of the source.
C17_CountAndDuration ==
    Succeeded =>
        /\ result.chunk_count = Len(chunks)
        /\ result.chunk_count = Len(results)
        /\ result.total_duration_ms = SumDurations(chunks)
        /\ result.total_duration_ms = input.duration_ms

\* C17 witness: a run over a plan with bisected windows has returned its
\* result to the caller.
C17_Witness ==
    /\ pc = "done"
    /\ outcome = CallerGetsResult
    /\ OverCeiling
    /\ input.duration_ms = 450000
    /\ Len(chunks) > NumChunks(input.duration_ms)
    /\ result.chunk_count = Len(chunks)

RECURSIVE SegmentsBefore(_, _)
\* the number of segments of the results before the i-th
SegmentsBefore(rs, i) ==
    IF i <= 1 THEN 0
    ELSE SegmentsBefore(rs, i - 1) + Len(rs[i - 1].segments)

\* C18: language is the language of the first chunk's result, unset when
\* there is no result and never taken from a later chunk; segments is the
\* per-chunk segment lists one after the other in index order, a chunk
\* without segments contributing nothing.
C18_LanguageAndSegments ==
    a_pc = "done" =>
        /\ a_out.language = IF a_in = <<>> THEN None ELSE a_in[1].language
        /\ Len(a_out.segments) = SegmentsBefore(a_in, Len(a_in) + 1)
        /\ \A i \in DOMAIN a_in :
              \A k \in DOMAIN a_in[i].segments :
                  a_out.segments[SegmentsBefore(a_in, i) + k]
                      = a_in[i].segments[k]

\* C18 witness: the first result has no language and no segments, a later
\* one has both.
C18_Witness ==
    /\ a_pc = "done"
    /\ Len(a_in) = 3
    /\ a_in[1].language = None /\ a_in[1].segments = <<>>
    /\ a_in[2].language = "fr" /\ a_in[2].segments # <<>>
    /\ a_in[3].segments # <<>>
    /\ a_out.language = None
    /\ Len(a_out.segments) >= 2

\* C19: for an input of at most the ceiling, the ceiling included,
\* chunk_audio returns one chunk, of index 0, from 0 to the total duration,
\* on the input's own path, and writes no chunk file.
C19_UnderCeilingSingleChunk ==
    (PlanReturned /\ ~OverCeiling) =>
        /\ chunks = <<AudioChunk(audio_path, 0, 0, input.duration_ms)>>
        /\ oversized = 0
        /\ \A p \in written : p # temp_audio_path => ~IsChunkName(p)

\* C19 witness: an input of exactly the ceiling, longer than one window,
\* has been planned as one chunk.
C19_Witness ==
    /\ pc = "transcribing"
    /\ input.size = MaxChunkSizeBytes
    /\ input.duration_ms = 1200000
    /\ Len(chunks) = 1
    /\ chunks[1].end_ms = 1200000

\* ceil(d / ChunkDurationMs)
CeilWindows(d) ==
    IF d % ChunkDurationMs = 0 THEN d \div ChunkDurationMs
    ELSE d \div ChunkDurationMs + 1

\* C20: an over-ceiling input of duration D whose every five-minute window
\* exports within the ceiling is planned as ceil(D / 300000) chunks with
\* boundaries at the multiples of 300000, the last ending at D; a 20-minute
\* input gives 4 chunks, and a successful run on it reports chunk_count 4
\* and total_duration_ms 1200000.
C20_WindowsOnly ==
    (PlanReturned /\ OverCeiling /\ oversized = 0) =>
        /\ Len(chunks) = CeilWindows(input.duration_ms)
        /\ \A i \in DOMAIN chunks :
              /\ chunks[i].start_ms = (i - 1) * 300000
              /\ chunks[i].end_ms = IF i < Len(chunks) THEN i * 300000
                                    ELSE input.duration_ms
        /\ input.duration_ms = 1200000 =>
              /\ Len(chunks) = 4
              /\ Succeeded =>
                    /\ result.chunk_count = 4
                    /\ result.total_duration_ms = 1200000

\* C20 witness: a successful run on a 20-minute over-ceiling input none of
\* whose windows was oversized has returned.
C20_Witness ==
    /\ pc = "done"
    /\ outcome = CallerGetsResult
    /\ OverCeiling
    /\ oversized = 0
    /\ input.duration_ms = 1200000
    /\ result.chunk_count = 4


\* C21: a run never proceeds with an empty plan: the chunk list returned by
\* chunk_audio has at least one chunk, and no ProcessingResult with
\* chunk_count 0 is built.
C21_PlanNeverEmpty ==
    /\ PlanReturned => chunks # <<>>
    /\ Succeeded => result.chunk_count >= 1

\* a chunk file that exists and was exported by the plan (the extracted
\* audio of a video named like a chunk file is none)
PlanFile(p) ==
    /\ IsChunkName(p)
    /\ Exists(fs, p)
    /\ fs[p].bitrate \in {"64k", "32k"}

\* C23: once chunk_audio has returned, every chunk file written by the plan
\* that exists is the path of a chunk of the returned list, and no file
\* found over the ceiling is left.
C23_ListIsSoleRecord ==
    PlanReturned /\ pc = "transcribing" =>
        \A p \in written :
            PlanFile(p) =>
                /\ \E i \in DOMAIN chunks : chunks[i].path = p
                /\ AtFloor(fs[p].start_ms, (fs[p].start_ms + fs[p].end_ms) \div 2)
                      \/ fs[p].size <= MaxChunkSizeBytes

\* C23 witness: a plan with several oversized exports, each discarded and
\* bisected, has been returned.
C23_Witness ==
    /\ pc = "transcribing"
    /\ oversized >= 2
    /\ Len(chunks) >= 3
    /\ \A i \in DOMAIN chunks : Exists(fs, chunks[i].path)

\* the file at the chunk's path holds the audio of the chunk's range
HoldsRange(chunk) ==
    /\ Exists(fs, chunk.path)
    /\ fs[chunk.path].start_ms = chunk.start_ms
    /\ fs[chunk.path].end_ms = chunk.end_ms
    /\ fs[chunk.path].complete

\* C27: when a chunk is handed to the transcription client, the file at its
\* path exists and holds the audio of exactly the chunk's range.
C27_FileHoldsChunkAtHandOff ==
    (pc = "transcribing" /\ Len(results) < Len(chunks)) =>
        HoldsRange(NextChunk(chunks, results))

\* C28: transcribe does not wait after its last allowed attempt: nothing
\* follows the attempt of index max_retries - 1 in the trace, and with
\* max_retries = 3, retry_delay = 1 and every attempt rate-limited the
\* waits add up to 3.
C28_NoWaitAfterFinalAttempt ==
    (c_pc = "done" /\ c_in.max_retries >= 1
        /\ Called(c_in.max_retries - 1)) =>
        /\ After(c_in.max_retries - 1) = <<>>
        /\ ( /\ c_in.max_retries = 3
             /\ c_in.retry_delay = 1
             /\ \A k \in Attempts : Answer(k).kind = "rate_limit" ) =>
              TotalWait(Trace) = 3

\* C24: a TranscriptionResult returned by transcribe never has a null
\* text: for a response that carries no text the result's text is the empty
\* string, in each response format.
C24_TextNeverNull ==
    (c_pc = "done" /\ c_ret.outcome = "returned") =>
        /\ c_ret.result.text # NullText
        /\ Answer(Trace[Len(Trace)].n).text = NullText =>
              c_ret.result.text = <<>>

\* C25: a progress callback that raises never alters the run: its exception
\* is not the exception of the try block and not what the caller receives.
C25_SinkFailureIgnored ==
    /\ exc # SinkError
    /\ pc = "done" => outcome.error # SinkError

\* the input file of the run is still there, with its content
InputFileIntact ==
    /\ Exists(fs, InputPathOf(input))
    /\ fs[InputPathOf(input)] =
          Audio(0, input.duration_ms, input.size, "source", TRUE)

\* C29: cleanup deletes only files the run created: the input file exists
\* after process() has returned or raised, whatever its name, in particular
\* when it is at or under the ceiling and is itself the single chunk.
C29_InputFileKept ==
    pc = "done" => InputFileIntact

\* the emission was made in Step 1 or Step 2
EarlyMessage(m) ==
    m \in {"extracting", "extracted", "loading", "chunker", "ready"}

\* the progress values are as C30 says, but for the clause on 100
ProgressWellFormed ==
    /\ \A i \in DOMAIN progress :
          /\ progress[i].total = 100
          /\ progress[i].current \in 0..100
          /\ EarlyMessage(progress[i].message) => progress[i].current <= 20
          /\ progress[i].message = "chunk" => progress[i].current \in 20..90
    /\ \A i \in 1..(Len(progress) - 1) :
          progress[i].current <= progress[i + 1].current

\* the value 100 has been emitted
Emitted100 == \E i \in DOMAIN progress : progress[i].current = 100

\* C30: every progress emission has total 100 and a current value within
\* 0..100, the values never decrease, those of extraction and planning are
\* at most 20, those of the chunks lie within 20..90, and 100 is emitted
\* only by a run that succeeds.
C30_ProgressValues ==
    /\ ProgressWellFormed
    /\ (Emitted100 /\ pc = "done") => outcome = CallerGetsResult

\* C30 holds in the runs where no unlink raises.
C30_WhenEveryUnlinkSucceeds ==
    /\ ProgressWellFormed
    /\ (Emitted100 /\ pc = "done" /\ unlink_failed = NoPath) =>
          outcome = CallerGetsResult

\* the exports made by the call
Exports == p_out.st.pos - 1

\* three exports at most per piece of MinHalfMs and per window: a window
\* bisected down to the floor is a binary tree whose leaves last MinHalfMs
\* or more, each node of it is exported once and each leaf once more
ExportBound(d) == 3 * (d \div MinHalfMs + NumChunks(d))

\* the chunks accepted without a size check
Unchecked == {i \in DOMAIN p_out.st.accepted : ~p_out.st.accepted[i].checked}

\* what C22 says of a call that has ended
PlanEnded ==
    /\ Exports <= ExportBound(p_in.duration_ms)
    /\ p_out.st.oversized <= Exports
    /\ p_in.size <= MaxChunkSizeBytes => Exports = 0
    /\ (~p_out.st.failed /\ p_in.size > MaxChunkSizeBytes) =>
          /\ Len(p_out.st.accepted) = Len(p_out.chunks)
          /\ p_out.st.warnings = Cardinality(Unchecked)
          /\ \A i \in DOMAIN p_out.chunks :
                IF i \in Unchecked
                THEN /\ p_out.st.accepted[i].bitrate = "32k"
                     /\ p_out.chunks[i].duration_ms < 2 * MinHalfMs
                ELSE /\ p_out.st.accepted[i].bitrate = "64k"
                     /\ p_out.st.accepted[i].size <= MaxChunkSizeBytes
          /\ (p_in.size > MaxChunkSizeBytes /\ p_in.duration_ms > 0) =>
                p_out.chunks[Len(p_out.chunks)].end_ms = p_in.duration_ms

\* C22: chunk_audio terminates for every source duration and every
\* behaviour of the export sizes, every export over the ceiling included:
\* taken operation by operation the call comes to its end, returning or
\* raising, after a bounded number of exports, and a chunk at the minimum
\* size is exported at the lowest bitrate and accepted without a size
\* check, with one warning logged for it.
C22_Terminates ==
    /\ <>(p_pc = "done")
    /\ [](p_pc = "done" => PlanEnded)

\* C22 witness: every export of a 20-minute source came out over the
\* ceiling, no unlink was refused, and the call returned 64 chunks, all at
\* the minimum size.
C22_Witness ==
    /\ p_pc = "done"
    /\ p_in.duration_ms = 1200000
    /\ p_in.rest = "over"
    /\ \A k \in DOMAIN p_out.st.seen :
          p_out.st.seen[k].op = "export" => p_out.st.seen[k].outcome = "over"
    /\ ~p_out.st.failed
    /\ Len(p_out.chunks) = 64
    /\ Cardinality(Unchecked) = 64
    /\ p_out.st.warnings = 64

\* the chunks this run has planned and not yet transcribed
PendingChunks ==
    IF pc = "transcribing" THEN (Len(results) + 1)..Len(chunks) ELSE {}

\* the other run wrote to or removed the path of pending chunk k after this
\* run had planned it (o_log has nothing from before)
Interfered(e, k) == e.path = chunks[k].path

\* the file of the chunk is chunk_NNNN.mp3 of the working directory, NNNN
\* its index: nothing of the run is in the name
NamedByIndex(chunk) == chunk.path = ChunkPathIn(TempDir, chunk.index)

\* this run's plan was made from the audio it was given: the file was not
\* replaced by the other run before the chunker decoded it
PlannedFromInput ==
    chunks # <<>> /\ chunks[Len(chunks)].end_ms = input.duration_ms

=============================================================================
